---------------------------- MODULE Spec2Model ----------------------------
(***************************************************************************)
(* A model of src/app.py: the resume upload handler (upload_resume), the   *)
(* section locator (extract_section), the education and experience         *)
(* extractors and the completeness scorer (generate_ats_score).            *)
(*                                                                         *)
(* Text is modelled as a sequence of tokens.  A token is a maximal piece   *)
(* of the text that the program's regular expressions never look inside:   *)
(* a newline, a blank, a punctuation mark or a word.  A Python string is   *)
(* the concatenation of its tokens; two word tokens are never adjacent     *)
(* (they would be one word).  A list of strings is a sequence of token     *)
(* sequences.                                                              *)
(***************************************************************************)
EXTENDS Integers, Sequences, FiniteSets, TLC

VARIABLES
    uploads,    \* the uploads folder: the set of stored files (filename, content)
    pc,         \* per request: the handler's position
    request,    \* per request: the files posted in the "file" field
    idx,        \* per request: index of the file the loop is at
    read_text,  \* per request: the local variable `text`
    results,    \* per request: the local list `results`
    response,   \* per request: the (body, status) returned, or None
    ops,        \* per request: the file operations performed so far (history)
    arg,        \* input of the pure function under check
    ret,        \* its returned value
    called      \* which pure function has been applied ("none" before)

hvars == <<uploads, pc, request, idx, read_text, results, response, ops>>
pvars == <<arg, ret, called>>
vars == <<uploads, pc, request, idx, read_text, results, response, ops, arg, ret, called>>

(***************************************************************************)
(* Bounds of the model.                                                    *)
(***************************************************************************)
MaxBatch == 2       \* files per upload request
MaxLines == 4       \* lines of a text given to the section locator
MaxExpLines == 4    \* lines of a text given to the experience extractor
MaxEntries == 2     \* entries of a generated profile list
MaxEduLines == 3    \* lines of a text given to the education extractor
MaxSkillLines == 3  \* lines of a text given to the skills extractor
MaxNameToks == 3    \* tokens of the stem of a generated file name
MaxContactLines == 3 \* lines of a text given to the contact extractor

(***************************************************************************)
(* Generic helpers on sequences.                                           *)
(***************************************************************************)
NotFound == <<"Not", " ", "Found">>
None == [none |-> TRUE]

Min(S) == CHOOSE x \in S : \A y \in S : x <= y
Max(S) == CHOOSE x \in S : \A y \in S : x >= y

RECURSIVE JoinWith(_, _)
\* sep.join(ss)
JoinWith(ss, sep) ==
    IF ss = <<>> THEN <<>>
    ELSE IF Len(ss) = 1 THEN ss[1]
    ELSE ss[1] \o sep \o JoinWith(Tail(ss), sep)

Slice(s, from, to) == IF from > to THEN <<>> ELSE SubSeq(s, from, to)


(***************************************************************************)
(* Tokens.  What the program's regular expressions can tell about a token  *)
(* is given by the tables below (re.IGNORECASE folds case; \s matches a    *)
(* blank or a newline; \b lies between a word character and a non-word     *)
(* character).                                                             *)
(***************************************************************************)
NL == "\n"
SP == " "
WhiteTok == {NL, SP}
\* tokens made of punctuation only (no word character at either end)
PunctTok == {":", ".", ",", ";", "|", "-", "%", "/", "(", ")", "&", "*", "+", "#", "@"}

\* str.upper() of the tokens of the model that have lower-case letters
UpperMap ==
    "Education" :> "EDUCATION" @@ "education" :> "EDUCATION" @@ "Experience" :> "EXPERIENCE" @@
    "experience" :> "EXPERIENCE" @@ "Work" :> "WORK" @@ "work" :> "WORK" @@
    "Skills" :> "SKILLS" @@ "skills" :> "SKILLS" @@ "Technical" :> "TECHNICAL" @@
    "Projects" :> "PROJECTS" @@ "Employment" :> "EMPLOYMENT" @@ "Competencies" :> "COMPETENCIES" @@
    "Expertise" :> "EXPERTISE" @@ "Certifications" :> "CERTIFICATIONS" @@ "Awards" :> "AWARDS" @@
    "Publications" :> "PUBLICATIONS" @@ "Languages" :> "LANGUAGES" @@ "Interests" :> "INTERESTS" @@
    "References" :> "REFERENCES" @@ "Upskills" :> "UPSKILLS" @@ "Manager" :> "MANAGER" @@
    "manager" :> "MANAGER" @@ "Led" :> "LED" @@ "led" :> "LED" @@
    "Acme" :> "ACME" @@ "foo" :> "FOO" @@ "Jan" :> "JAN" @@
    "Present" :> "PRESENT" @@ "College" :> "COLLEGE" @@ "Bachelor" :> "BACHELOR" @@
    "Tech" :> "TECH" @@ "Masters" :> "MASTERS" @@ "Engineering" :> "ENGINEERING" @@
    "Python" :> "PYTHON" @@ "python" :> "PYTHON" @@
    "Java" :> "JAVA" @@ "java" :> "JAVA" @@ "a@b.co" :> "A@B.CO" @@
    "pdf" :> "PDF" @@ "txt" :> "TXT" @@ "of" :> "OF" @@ "Electrical" :> "ELECTRICAL" @@
    "Cumulative" :> "CUMULATIVE" @@ "Diploma" :> "DIPLOMA" @@ "Pass" :> "PASS" @@
    "percentage" :> "PERCENTAGE" @@ "With" :> "WITH" @@ "from" :> "FROM" @@ "with" :> "WITH" @@
    "School" :> "SCHOOL" @@ "present" :> "PRESENT" @@ "jdoe" :> "JDOE" @@ "cv" :> "CV" @@
    "Chennai" :> "CHENNAI" @@ "React" :> "REACT" @@ "react" :> "REACT" @@
    "MySQL" :> "MYSQL" @@ "mysql" :> "MYSQL" @@ "sql" :> "SQL" @@ "c" :> "C" @@
    "net" :> "NET" @@ "asp" :> "ASP" @@ "go" :> "GO" @@
    "Cv" :> "CV" @@ "Jdoe" :> "JDOE" @@ "v" :> "V" @@ "Resume" :> "RESUME" @@
    "Bangalore" :> "BANGALORE" @@ "bangalore" :> "BANGALORE" @@ "Aurangabad" :> "AURANGABAD" @@
    "aurangabad" :> "AURANGABAD" @@ "chennai" :> "CHENNAI" @@ "Delhi" :> "DELHI" @@
    "delhi" :> "DELHI" @@ "New" :> "NEW" @@ "new" :> "NEW" @@ "Vasco" :> "VASCO" @@
    "vasco" :> "VASCO" @@ "da" :> "DA" @@ "Da" :> "DA" @@ "Gama" :> "GAMA" @@ "gama" :> "GAMA"

\* str.upper() of a token (re.IGNORECASE compares tokens by it)
Upper(t) == IF t \in DOMAIN UpperMap THEN UpperMap[t] ELSE t

\* the token begins / ends with a word character ([A-Za-z0-9_])
IsWordTok(t) == t \notin WhiteTok /\ t \notin PunctTok

\* \b at position p of t (between t[p-1] and t[p])
WordBoundary(t, p) ==
    LET before == p > 1 /\ IsWordTok(t[p - 1])
        after  == p <= Len(t) /\ IsWordTok(t[p])
    IN  before # after

\* text.split("\n")
RECURSIVE Lines(_)
Lines(t) ==
    LET nls == {i \in 1..Len(t) : t[i] = NL}
    IN  IF nls = {} THEN <<t>>
        ELSE <<Slice(t, 1, Min(nls) - 1)>> \o Lines(Slice(t, Min(nls) + 1, Len(t)))

\* str.strip()
RECURSIVE Strip(_)
Strip(t) ==
    IF t = <<>> THEN t
    ELSE IF t[1] \in WhiteTok THEN Strip(Tail(t))
    ELSE IF t[Len(t)] \in WhiteTok THEN Strip(Slice(t, 1, Len(t) - 1))
    ELSE t

(***************************************************************************)
(* re.search over tokens.  A pattern is a sequence of elements:            *)
(*   Lit(s)   the token s, case folded                                     *)
(*   In(S)    one token whose upper case is in S (a character class or an  *)
(*            alternation of single words)                                 *)
(*   Exact(S) one token of S, case kept (a pattern without re.IGNORECASE)  *)
(*   Star(S)  greedy repetition, zero or more tokens of S;  Plus(S) one or *)
(*            more;  Ws is \s*                                             *)
(*   Opt(s)   s?                                                           *)
(*   Alt(ps)  (p1|p2|...), sub-patterns tried in order                     *)
(*   Bol Eol  ^ and $ under re.MULTILINE                                   *)
(*   Snl Enl  (?:^|\n) and (?:$|\n) without re.MULTILINE                   *)
(*   Wb       \b                                                           *)
(* MatchAt gives the position after the match of pat[k..] at p, 0 if none, *)
(* following the backtracking order of the re module.                      *)
(***************************************************************************)
Lit(s) == [k |-> "in", S |-> {Upper(s)}]
In(S) == [k |-> "in", S |-> S]
Exact(S) == [k |-> "ex", S |-> S]
Phrase(ws) == [i \in 1..Len(ws) |-> Lit(ws[i])]
Star(S) == [k |-> "star", S |-> S, min |-> 0]
Plus(S) == [k |-> "star", S |-> S, min |-> 1]
Ws  == Star(WhiteTok)
Opt(s) == [k |-> "opt", s |-> s]
Alt(ps) == [k |-> "alt", ps |-> ps]
Bol == [k |-> "bol"]
Eol == [k |-> "eol"]
Snl == [k |-> "snl"]
Enl == [k |-> "enl"]
Wb  == [k |-> "wb"]

RECURSIVE MatchAt(_, _, _, _)
MatchAt(pat, k, t, p) ==
    IF k > Len(pat) THEN p
    ELSE
    LET e == pat[k]
        n == Len(t)
        rest(q) == MatchAt(pat, k + 1, t, q)
        run(S) == Max({m \in 0..(n + 1 - p) : \A q \in p..(p + m - 1) : Upper(t[q]) \in S})
        tail(j) == e.ps[j] \o Slice(pat, k + 1, Len(pat))
    IN  CASE e.k = "in"  -> IF p <= n /\ Upper(t[p]) \in e.S THEN rest(p + 1) ELSE 0
          [] e.k = "ex"  -> IF p <= n /\ t[p] \in e.S THEN rest(p + 1) ELSE 0
          [] e.k = "opt" -> IF p <= n /\ Upper(t[p]) = Upper(e.s) /\ rest(p + 1) # 0
                            THEN rest(p + 1) ELSE rest(p)
          [] e.k = "star" -> LET ok == {m \in e.min..run(e.S) : rest(p + m) # 0}
                             IN  IF ok = {} THEN 0 ELSE rest(p + Max(ok))
          [] e.k = "alt" -> LET ok == {j \in 1..Len(e.ps) : MatchAt(tail(j), 1, t, p) # 0}
                            IN  IF ok = {} THEN 0 ELSE MatchAt(tail(Min(ok)), 1, t, p)
          [] e.k = "bol" -> IF p = 1 \/ t[p - 1] = NL THEN rest(p) ELSE 0
          [] e.k = "eol" -> IF p = n + 1 \/ t[p] = NL THEN rest(p) ELSE 0
          [] e.k = "snl" -> IF p = 1 /\ rest(p) # 0 THEN rest(p)
                            ELSE IF p <= n /\ t[p] = NL THEN rest(p + 1) ELSE 0
          [] e.k = "enl" -> IF (p = n + 1 \/ (p = n /\ t[p] = NL)) /\ rest(p) # 0 THEN rest(p)
                            ELSE IF p <= n /\ t[p] = NL THEN rest(p + 1) ELSE 0
          [] e.k = "wb"  -> IF WordBoundary(t, p) THEN rest(p) ELSE 0

NoMatch == [start |-> 0, end |-> 0]

\* the first of two match results that is a match (the second is looked at only then)
OrElse(m, other) == IF m # NoMatch THEN m ELSE other

MatchFrom(s, e) == IF e # 0 THEN [start |-> s, end |-> e] ELSE NoMatch

RECURSIVE SearchFrom(_, _, _)
SearchFrom(pat, t, s) ==
    IF s > Len(t) + 1 THEN NoMatch
    ELSE OrElse(MatchFrom(s, MatchAt(pat, 1, t, s)), SearchFrom(pat, t, s + 1))

\* re.search(pat, t): the leftmost match, as positions [start, end)
Search(pat, t) == SearchFrom(pat, t, 1)

Found(pat, t) == Search(pat, t) # NoMatch

\* The positions the match of pat[k..] at p goes through: before element k, before
\* element k + 1, ..., after the last element (the groups of a match are read from
\* them).  Defined when MatchAt(pat, k, t, p) # 0.
RECURSIVE PathAt(_, _, _, _)
PathAt(pat, k, t, p) ==
    IF k > Len(pat) THEN <<p>>
    ELSE
    LET e == pat[k]
        rest(q) == MatchAt(pat, k + 1, t, q)
        tail(j) == e.ps[j] \o Slice(pat, k + 1, Len(pat))
        first == Min({j \in 1..Len(e.ps) : MatchAt(tail(j), 1, t, p) # 0})
        next == CASE e.k \in {"in", "ex"} -> p + 1
                  [] e.k = "opt" -> IF p <= Len(t) /\ Upper(t[p]) = Upper(e.s) /\ rest(p + 1) # 0
                                    THEN p + 1 ELSE p
                  [] e.k = "star" -> Max({q \in p..(Len(t) + 1) :
                                            /\ q - p >= e.min
                                            /\ \A r \in p..(q - 1) : Upper(t[r]) \in e.S
                                            /\ rest(q) # 0})
                  [] e.k = "alt" -> PathAt(tail(first), 1, t, p)[Len(e.ps[first]) + 1]
                  [] e.k \in {"bol", "eol", "wb"} -> p
                  [] e.k = "snl" -> IF p = 1 /\ rest(p) # 0 THEN p ELSE p + 1
                  [] e.k = "enl" -> IF (p = Len(t) + 1 \/ (p = Len(t) /\ t[p] = NL)) /\ rest(p) # 0
                                    THEN p ELSE p + 1
    IN  <<p>> \o PathAt(pat, k + 1, t, next)

\* the text matched by the elements i..j of pat in the match m of pat in t
Group(pat, t, m, i, j) ==
    LET path == PathAt(pat, 1, t, m.start) IN Slice(t, path[i], path[j + 1] - 1)

(***************************************************************************)
(* extract_section (the section locator).                                  *)
(***************************************************************************)
\* rf'\b{re.escape(header)}\b' searched in a line under re.IGNORECASE
ContainsPhrase(line, header) == Found(<<Wb>> \o Phrase(header) \o <<Wb>>, line)

next_section_headers ==
    << <<"Education">>, <<"Experience">>, <<"Work", SP, "Experience">>, <<"Employment">>,
       <<"Skills">>, <<"Technical", SP, "Skills">>, <<"Projects">>, <<"Certifications">>,
       <<"Awards">>, <<"Publications">>, <<"Languages">>, <<"Interests">>, <<"References">> >>

LowerEq(a, b) == Len(a) = Len(b) /\ \A i \in 1..Len(a) : Upper(a[i]) = Upper(b[i])

\* variant with a slip: the searched headers stay among the end markers
RemoveSearchedKeepAll(nexts, section_headers) == nexts

\* the headers being looked for are removed from the next-section headers
RemoveSearched(nexts, section_headers) ==
    SelectSeq(nexts, LAMBDA nh : \A i \in 1..Len(section_headers) : ~LowerEq(section_headers[i], nh))

\* variant with a slip: the slice takes the end line too
SectionBodyThroughEnd(lines, start_idx, end_idx) ==
    JoinWith(Slice(lines, start_idx + 2, Min({end_idx + 1, Len(lines)})), <<NL>>)

\* "\n".join(lines[start_idx+1:end_idx])
SectionBody(lines, start_idx, end_idx) ==
    JoinWith(Slice(lines, start_idx + 2, end_idx), <<NL>>)

\* Returns [body, end_idx]; line indexes are those of the code (from 0), -1 for "none".
extract_section(text, section_headers) ==
    LET lines == Lines(text)
        hasAny(line, hs) == \E i \in 1..Len(hs) : ContainsPhrase(line, hs[i])
        startSet == {i \in 0..(Len(lines) - 1) : hasAny(lines[i + 1], section_headers)}
        start_idx == IF startSet = {} THEN -1 ELSE Min(startSet)
        nexts == RemoveSearched(next_section_headers, section_headers)
        endSet == {i \in (start_idx + 1)..(Len(lines) - 1) : hasAny(lines[i + 1], nexts)}
        end_idx == IF endSet = {} THEN Len(lines) ELSE Min(endSet)
    IN  IF start_idx = -1 THEN [body |-> <<>>, end_idx |-> Len(lines), start_idx |-> -1]
        ELSE [body |-> SectionBody(lines, start_idx, end_idx),
              end_idx |-> end_idx, start_idx |-> start_idx]


(***************************************************************************)
(* generate_ats_score (the completeness scorer).                           *)
(***************************************************************************)
max_score == 100

Digit(d) == CASE d = 0 -> "0" [] d = 1 -> "1" [] d = 2 -> "2" [] d = 3 -> "3"
              [] d = 4 -> "4" [] d = 5 -> "5" [] d = 6 -> "6" [] d = 7 -> "7"
              [] d = 8 -> "8" [] d = 9 -> "9"

RECURSIVE IntToStr(_)
\* str(n) for n >= 0, as a sequence of characters
IntToStr(n) == IF n < 10 THEN <<Digit(n)>> ELSE IntToStr(n \div 10) \o <<Digit(n % 10)>>

\* variant with a slip: the education test is inverted
EducationPointsInverted(education) == IF Len(education) > 0 THEN 0 ELSE 20

\* `if parsed_data["education"] and len(parsed_data["education"]) > 0: score += 20`
EducationPoints(education) == IF Len(education) > 0 THEN 20 ELSE 0

\* variant with a slip: the location is scored too
ContactPointsWithLocation(cd) ==
      (IF cd.Name # NotFound THEN 10 ELSE 0) + (IF cd.Email # NotFound THEN 10 ELSE 0)
    + (IF cd.Phone # NotFound THEN 10 ELSE 0) + (IF cd.Location # NotFound THEN 10 ELSE 0)

ContactPoints(cd) ==
      (IF cd.Name # NotFound THEN 10 ELSE 0) + (IF cd.Email # NotFound THEN 10 ELSE 0)
    + (IF cd.Phone # NotFound THEN 10 ELSE 0)

generate_ats_score(parsed_data) ==
    LET score == ContactPoints(parsed_data.contact_details)
               + EducationPoints(parsed_data.education)
               + (IF Len(parsed_data.experience) > 0 THEN 25 ELSE 0)
               + (IF Len(parsed_data.skills) > 0 THEN 25 ELSE 0)
    IN  [score |-> score, max_score |-> max_score, percentage |-> IntToStr(score) \o <<"%">>]


(***************************************************************************)
(* The experience extractor.                                               *)
(***************************************************************************)
\* token classes of the experience patterns (upper case, as re.IGNORECASE folds)
YearTok  == {"2019", "2021"}                \* (19|20)\d{2}, \d{4}
MonthTok == {"JAN"}                         \* (?:Jan|Feb|...|Dec)[a-z]*
DashTok  == {"-"}                           \* [-–—]
EmailTok == {"A@B.CO"}                      \* [a-zA-Z0-9._%+-]+@[a-zA-Z0-9.-]+\.[a-zA-Z]{2,}
PhoneTok == {"9876543210"}                  \* ten digits: the phone pattern and \d{10}
LinkedInTok == {"LINKEDIN.COM/IN/JDOE"}     \* linkedin\.com\/in\/[a-zA-Z0-9_-]+
DigitTok ==
    YearTok \cup PhoneTok \cup {"8", "2023", "91", "987", "654", "3210", "44", "20", "7946", "0958"} \* tokens made of digits only
IndicatorTitleTok ==
    {"MANAGER", "ENGINEER", "DEVELOPER", "ANALYST", "CONSULTANT", "SPECIALIST",
     "DIRECTOR", "COORDINATOR", "SUPERVISOR"}
JobTitleTok ==
    {"ENGINEER", "DEVELOPER", "ANALYST", "MANAGER", "CONSULTANT", "COORDINATOR",
     "SPECIALIST", "DIRECTOR", "DESIGNER", "ARCHITECT", "INTERN", "ADMINISTRATOR",
     "OFFICER", "EXECUTIVE", "REPRESENTATIVE", "ASSOCIATE"}
JobVerbTok ==
    {"MANAGED", "LED", "DEVELOPED", "IMPLEMENTED", "CREATED", "DESIGNED", "COLLABORATED"}
\* tokens that begin with a lower-case letter (^[a-z], no IGNORECASE)
LowerStartTok ==
    {"foo", "experience", "education", "work", "skills", "led", "manager", "python",
     "java", "a@b.co", "pdf", "txt", "from", "with", "of", "percentage", "present", "jdoe",
     "cv"}

\* the upper-case forms of the tokens of t that end with a letter
LetterToks(t) == {Upper(t[i]) : i \in {j \in 1..Len(t) : IsWordTok(t[j]) /\ t[j] \notin DigitTok}}

\* \b(?:managed|led|...|responsible for|collaborated|worked with)\b
job_verbs ==
    <<Wb, Alt(<< <<In(JobVerbTok)>>, Phrase(<<"RESPONSIBLE", SP, "FOR">>),
                 Phrase(<<"WORKED", SP, "WITH">>) >>), Wb>>

experience_headers ==
    << <<"WORK", SP, "EXPERIENCE">>, <<"EMPLOYMENT", SP, "HISTORY">>, <<"EXPERIENCE">>,
       <<"PROFESSIONAL", SP, "EXPERIENCE">>, <<"WORK", SP, "HISTORY">>,
       <<"RELEVANT", SP, "EXPERIENCE">>, <<"CAREER", SP, "HISTORY">>, <<"EMPLOYMENT">>,
       <<"PROFESSIONAL", SP, "BACKGROUND">> >>

experience_next_section_headers ==
    << <<"EDUCATION">>, <<"SKILLS">>, <<"CERTIFICATIONS">>, <<"AWARDS">>, <<"PROJECTS">>,
       <<"ACHIEVEMENTS">>, <<"PUBLICATIONS">>, <<"REFERENCES">>, <<"LANGUAGES">>,
       <<"INTERESTS">>, <<"VOLUNTEER">>, <<"ADDITIONAL", SP, "INFORMATION">>,
       <<"PERSONAL", SP, "PROJECTS">>, <<"EXTRACURRICULAR">> >>

\* r"(?:^|\n)\s*HEADER\s*(?:$|\n)"
HeaderLinePattern(header) == <<Snl, Ws>> \o Phrase(header) \o <<Ws, Enl>>

RECURSIVE FirstPatternMatchFrom(_, _, _)
FirstPatternMatchFrom(headers, t, j) ==
    IF j > Len(headers) THEN NoMatch
    ELSE OrElse(Search(HeaderLinePattern(headers[j]), t),
                FirstPatternMatchFrom(headers, t, j + 1))

\* `for pattern in patterns: match = re.search(pattern, t); if match: ... break`
FirstPatternMatch(headers, t) == FirstPatternMatchFrom(headers, t, 1)

\* re.sub(r'\n+', '\n', text)
RECURSIVE CollapseNewlines(_)
CollapseNewlines(t) ==
    IF Len(t) < 2 THEN t
    ELSE IF t[1] = NL /\ t[2] = NL THEN CollapseNewlines(Tail(t))
    ELSE <<t[1]>> \o CollapseNewlines(Tail(t))

RECURSIVE CharLen(_)
\* len() of a string, in characters
CharLen(t) == IF t = <<>> THEN 0 ELSE Len(t[1]) + CharLen(Tail(t))

contact_patterns(t) ==
    << <<In(EmailTok)>>, <<In(PhoneTok)>>, <<In(PhoneTok)>>, <<In(LinkedInTok)>>,
       <<In(LetterToks(t)), Ws, Lit("|"), Ws, In({"LINKEDIN"} \cup LinkedInTok)>> >>

experience_indicators ==
    << <<Wb, In(YearTok), Plus({SP, NL, ",", "-"}), In(YearTok \cup {"PRESENT", "CURRENT"}), Wb>>,
       <<Wb, In(MonthTok), Plus({SP, NL, ",", "-"}), In(YearTok)>>,
       job_verbs,
       <<Wb, In(IndicatorTitleTok), Wb>> >>

AnyFound(pats, t) == \E j \in 1..Len(pats) : Found(pats[j], t)

\* the two guards on the located section: it is returned if it passes both, "" if not
GuardedSection(experience_section) ==
    LET newlines == Cardinality({i \in 1..Len(experience_section) : experience_section[i] = NL})
    IN  IF (CharLen(experience_section) < 20 \/ newlines < 2)
                /\ AnyFound(contact_patterns(experience_section), experience_section) THEN <<>>
        ELSE IF ~AnyFound(experience_indicators, experience_section) THEN <<>>
        ELSE experience_section

\* text[start_idx:end_idx].strip(), end_idx set by the match nm of a next-section
\* pattern in text[start_idx:]
SectionUpTo(text, start_idx, nm) ==
    LET end_idx == IF nm = NoMatch THEN Len(text) + 1 ELSE start_idx + nm.start - 1
    IN  Strip(Slice(text, start_idx, end_idx - 1))

\* the part of the function after the header search; hm is the header match
SectionAfterHeader(text, hm) ==
    IF hm = NoMatch THEN <<>>
    ELSE GuardedSection(SectionUpTo(text, hm.end,
            FirstPatternMatch(experience_next_section_headers, Slice(text, hm.end, Len(text)))))

\* the part of the function after the normalisation of the text
SectionOfNormalized(text) == SectionAfterHeader(text, FirstPatternMatch(experience_headers, text))

\* the section text that passed both guards, or "" (the empty sequence)
extract_experience_section(text0) == SectionOfNormalized(Strip(CollapseNewlines(text0)))

\* (?:\bMon[a-z]*\.?\s+\d{4}\b|(19|20)\d{2})\s*[-–—]\s*(?:\bMon...\d{4}\b|(19|20)\d{2}|Present|Current|Now)
date_pattern ==
    LET monthYear == <<Wb, In(MonthTok), Opt("."), Plus(WhiteTok), In(YearTok), Wb>>
    IN  <<Alt(<<monthYear, <<In(YearTok)>> >>), Ws, In(DashTok), Ws,
          Alt(<<monthYear, <<In(YearTok)>>, <<In({"PRESENT", "CURRENT", "NOW"})>> >>)>>

\* the job title pattern matches exactly where a title noun stands as a whole word
job_title_pattern == <<Wb, In(JobTitleTok), Wb>>

\* \b[A-Z][A-Za-z0-9\s,\.&\'-]+(?:Inc|...)?\b under re.IGNORECASE: a word of two or
\* more characters that begins with a letter
company_pattern(t) == <<In(LetterToks(t))>>

RECURSIVE RegexSplit(_, _), SplitAt(_, _, _)
\* re.split(pat, t)
RegexSplit(pat, t) == SplitAt(pat, t, Search(pat, t))
SplitAt(pat, t, m) ==
    IF m = NoMatch \/ m.end = m.start THEN <<t>>
    ELSE <<Slice(t, 1, m.start - 1)>> \o RegexSplit(pat, Slice(t, m.end, Len(t)))

RECURSIVE GroupLines(_, _, _, _)
\* the loop shared by approaches 2 and 3: a line whose index is in `anchors` starts a
\* new entry; `cur` is current_entry, `i` the index of the next line (from 1)
GroupLines(lines, anchors, cur, i) ==
    IF i > Len(lines) THEN (IF cur = <<>> THEN <<>> ELSE <<JoinWith(cur, <<NL>>)>>)
    ELSE IF i \in anchors
         THEN (IF cur = <<>> THEN <<>> ELSE <<JoinWith(cur, <<NL>>)>>)
              \o GroupLines(lines, anchors, <<lines[i]>>, i + 1)
         ELSE GroupLines(lines, anchors, Append(cur, lines[i]), i + 1)

\* variant with a slip: the contact patterns are not looked at
ValidExperienceEntryAnyContact(entry) ==
    /\ entry # <<>>
    /\ Found(date_pattern, entry) \/ Found(job_title_pattern, entry) \/ Found(job_verbs, entry)

\* entries kept by the final filter of parse_experience_entries
ValidExperienceEntry(entry) ==
    /\ entry # <<>>
    /\ Found(date_pattern, entry) \/ Found(job_title_pattern, entry) \/ Found(job_verbs, entry)
    /\ ~Found(<<In(EmailTok \cup PhoneTok \cup LinkedInTok)>>, entry)

\* `if len(entries) <= 1: ...; if len(other) > 1: entries = other`
Resegment(entries, other) == IF Len(entries) <= 1 /\ Len(other) > 1 THEN other ELSE entries

\* variant with a slip: every line with a date range starts a new entry
DateBasedEntriesAtEveryDate(lines) ==
    GroupLines(lines, {i \in 1..Len(lines) : Found(date_pattern, lines[i])}, <<>>, 1)

\* approach 2: a new entry at each line with a date range whose previous line has none
DateBasedEntries(lines) ==
    LET anchors == {i \in 1..Len(lines) :
                       /\ Found(date_pattern, lines[i])
                       /\ (i = 1 \/ ~Found(date_pattern, lines[i - 1]))}
    IN  GroupLines(lines, anchors, <<>>, 1)

\* approach 3: a new entry at each line that looks like a job title or a company
TitleBasedEntries(lines) ==
    LET endsPunct(l) == l # <<>> /\ l[Len(l)] \in {".", ",", ":", ";"}
        anchors == {i \in 2..Len(lines) :
                       /\ Found(job_title_pattern, lines[i])
                            \/ Found(company_pattern(lines[i]), lines[i])
                       /\ CharLen(lines[i]) < 100
                       /\ ~endsPunct(lines[i - 1])
                       /\ ~(lines[i] # <<>> /\ lines[i][1] \in LowerStartTok)}
    IN  GroupLines(lines, anchors, <<>>, 1)

\* the final filter: entries stripped, then kept if valid
FilterEntries(entries) ==
    SelectSeq([i \in 1..Len(entries) |-> Strip(entries[i])], ValidExperienceEntry)

\* `entries` when the final filter starts: the split at blank lines, replaced by the
\* date-based entries, then by the title-based ones, when it has at most one entry
ExperienceSegments(experience_section) ==
    Resegment(Resegment(RegexSplit(<<Lit(NL), Ws, Lit(NL)>>, experience_section),
                        DateBasedEntries(Lines(experience_section))),
              TitleBasedEntries(Lines(experience_section)))

parse_experience_entries(experience_section) ==
    IF experience_section = <<>> THEN <<>>
    ELSE FilterEntries(ExperienceSegments(experience_section))

\* ((?:Jan|...)[a-z]*\s+\d{4})\s*[-–—]\s*((?:Jan|...)[a-z]*\s+\d{4}|Present|Current|Now|(?:19|20)\d{2})
date_range_pattern ==
    LET monthYear == <<In(MonthTok), Plus(WhiteTok), In(YearTok)>>
    IN  monthYear \o <<Ws, In(DashTok), Ws,
          Alt(<<monthYear, <<In({"PRESENT", "CURRENT", "NOW"})>>, <<In(YearTok)>> >>)>>

RECURSIVE RemoveAll(_, _)
\* s.replace(d, '') for a non-empty d
RemoveAll(s, d) ==
    IF Len(s) < Len(d) THEN s
    ELSE IF SubSeq(s, 1, Len(d)) = d THEN RemoveAll(Slice(s, Len(d) + 1, Len(s)), d)
    ELSE <<s[1]>> \o RemoveAll(Tail(s), d)

RECURSIVE RStripSet(_, _)
\* re.sub(r'[...]+$', '', s): the trailing run of tokens of S removed
RStripSet(s, S) ==
    IF s # <<>> /\ s[Len(s)] \in S THEN RStripSet(Slice(s, 1, Len(s) - 1), S) ELSE s

RECURSIVE SplitOn(_, _)
\* s.split(sep) for a one-token separator
SplitOn(s, sep) ==
    LET at == {i \in 1..Len(s) : s[i] = sep}
    IN  IF at = {} THEN <<s>>
        ELSE <<Slice(s, 1, Min(at) - 1)>> \o SplitOn(Slice(s, Min(at) + 1, Len(s)), sep)

\* match.group(0) of a search in t, "" when there is no match
MatchedText(t, m) == IF m = NoMatch THEN <<>> ELSE Slice(t, m.start, m.end - 1)

\* [t.strip() for t in header_line.split('|')]
PipeTokens(raw) == [i \in 1..Len(raw) |-> Strip(raw[i])]

\* " | ".join(filter(None, details))
JoinDetails(company, role, duration) ==
    JoinWith(SelectSeq(<<company, role, duration>>, LAMBDA d : d # <<>>), <<SP, "|", SP>>)

\* the header line has '|': role | company | ... | date
PipedDetails(tokens, duration) ==
    JoinDetails(tokens[2], tokens[1],
                IF Found(date_range_pattern, tokens[Len(tokens)])
                THEN tokens[Len(tokens)] ELSE duration)

\* the header line has no '|': the company is the header line without the duration
PlainDetails(header_line, lines, duration) ==
    JoinDetails(IF duration # <<>>
                THEN RStripSet(Strip(RemoveAll(header_line, duration)), {SP, NL, ",", "-"})
                ELSE header_line,
                IF Len(lines) > 1 THEN Strip(lines[2]) ELSE <<>>,
                duration)

\* duration is the date range found in the whole entry ("" if none)
DetailsOfHeader(header_line, lines, duration) ==
    IF \E i \in 1..Len(header_line) : header_line[i] = "|"
    THEN PipedDetails(PipeTokens(SplitOn(header_line, "|")), duration)
    ELSE PlainDetails(header_line, lines,
            IF duration = <<>>
            THEN MatchedText(header_line, Search(date_range_pattern, header_line))
            ELSE duration)

parse_experience_details(entry) ==
    DetailsOfHeader(Strip(Lines(entry)[1]), Lines(entry),
                    MatchedText(entry, Search(date_range_pattern, entry)))

\* the loop over the entries: the details of each, kept when not empty
ExperiencesOfEntries(entries) ==
    SelectSeq([i \in 1..Len(entries) |-> parse_experience_details(entries[i])],
              LAMBDA d : d # <<>>)

ExperiencesOfSection(experience_section) ==
    IF experience_section = <<>> THEN <<>>
    ELSE ExperiencesOfEntries(parse_experience_entries(experience_section))

extract_experience(text) == ExperiencesOfSection(extract_experience_section(text))

\* variant with a slip: the header phrase is accepted anywhere in a line
HasHeaderPhraseAnywhere(text) ==
    \E j \in 1..Len(experience_headers) : ContainsPhrase(text, experience_headers[j])

has_work_experience_section(text) ==
    \E j \in 1..Len(experience_headers) : Found(HeaderLinePattern(experience_headers[j]), text)

NoSectionMessage == <<"No experience section found in the resume.">>
NoEntriesMessage == <<"No work experience entries found in the resume.">>

\* returns a message (a string) or the list of experiences
ResumeResult(experiences) ==
    IF experiences = <<>> THEN [type |-> "str", value |-> NoEntriesMessage]
    ELSE [type |-> "list", value |-> experiences]

process_resume(text) ==
    IF ~has_work_experience_section(text) THEN [type |-> "str", value |-> NoSectionMessage]
    ELSE ResumeResult(extract_experience(text))

(***************************************************************************)
(* The education extractor.  A word with periods inside ("B.Tech") is the  *)
(* words and the periods it is made of.                                    *)
(***************************************************************************)
\* the first pattern of the list, in list order, that matches anywhere in t: its match
RECURSIVE FirstSearchFrom(_, _, _)
FirstSearchFrom(pats, t, j) ==
    IF j > Len(pats) THEN NoMatch
    ELSE OrElse(Search(pats[j], t), FirstSearchFrom(pats, t, j + 1))

\* the starts of the leftmost matches in t of the patterns of the list
StartsOf(pats, t) == {Search(pats[j], t).start : j \in 1..Len(pats)} \ {0}

\* the first of two lists that is not empty (the second is computed only then)
FirstNonEmpty(entries, others) == IF entries # <<>> THEN entries ELSE others

\* the upper-case forms of the tokens of t
Toks(t) == {Upper(t[i]) : i \in 1..Len(t)}

education_start_patterns ==
    << <<Lit("EDUCATION"), Ws, Opt(":"), Eol>>,
       <<Lit("EDUCATION"), Ws, Opt(":")>>,
       <<Lit("EDUCATION"), Wb>>,
       <<Lit("ACADEMIC"), Lit(SP), Lit("BACKGROUND"), Ws, Opt(":")>>,
       <<In({"QUALIFICATION", "QUALIFICATIONS"}), Ws, Opt(":")>>,
       <<Lit("ACADEMIC"), Ws, Lit("RECORD"), Wb>>,
       <<Lit("EDUCATION"), Ws, Lit("DETAILS"), Wb>>,
       <<Lit("EDUCATION"), Ws, Lit("BACKGROUND"), Wb>> >>

\* the keyword patterns tried when no header is found
degree_patterns ==
    << <<Alt(<< Phrase(<<"B", ".", "E">>), Phrase(<<"B", ".", "TECH">>),
                Phrase(<<"M", ".", "TECH">>), Phrase(<<"BACHELOR", SP, "OF", SP, "ENGINEERING">>),
                Phrase(<<"BACHELOR", SP, "OF", SP, "TECHNOLOGY">>) >>)>>,
       <<Alt(<< <<In({"SSLC", "SSC", "CBSE", "ICSE"})>>, Phrase(<<"HIGHER", SP, "SECONDARY">>),
                Phrase(<<"PRE", "-", "UNIVERSITY">>) >>)>>,
       <<In({"CGPA", "CUMULATIVE", "GRADE", "PERCENTAGE"})>> >>

\* text.rfind('\n', 0, p) + 1: the start of the line that holds position p
LineStart(text, p) ==
    LET nls == {i \in 1..(p - 1) : text[i] = NL}
    IN  IF nls = {} THEN 1 ELSE Max(nls) + 1

\* education_start.end(): where education_text starts in text, 0 when education_start
\* stays None; header is the match of a header pattern, degree that of a keyword pattern
EducationStartEnd(text, header, degree) ==
    IF header # NoMatch THEN header.end
    ELSE IF degree # NoMatch THEN LineStart(text, degree.start)
    ELSE 0

\* the alternation of section names shared by the first two next-section patterns
NextSectionNames ==
    Alt(<< Phrase(<<"SKILLS">>), Phrase(<<"TECHNICAL", SP, "SKILLS">>), Phrase(<<"PROJECTS">>),
           Phrase(<<"INTERNSHIP">>), Phrase(<<"INTERNSHIPS">>), Phrase(<<"EXPERIENCE">>),
           Phrase(<<"WORK", SP, "EXPERIENCE">>), Phrase(<<"ORGANIZATIONS">>),
           Phrase(<<"CERTIFICATION">>), Phrase(<<"CERTIFICATIONS">>), Phrase(<<"PUBLICATIONS">>),
           Phrase(<<"ACHIEVEMENTS">>), Phrase(<<"LANGUAGES">>), Phrase(<<"SUMMARY">>),
           Phrase(<<"COURSES">>), Phrase(<<"COURSEWORK">>),
           Phrase(<<"AREA", SP, "OF", SP, "INTERESTS">>), Phrase(<<"PRESENTATIONS">>),
           <<In({"TECH", "TECHNICAL"}), Ws, In({"SKILL", "SKILLS"})>>, Phrase(<<"DECLARATION">>),
           Phrase(<<"PROFESSIONAL", SP, "EXPERIENCE">>), Phrase(<<"EXTRACURRICULAR">>),
           Phrase(<<"LEADERSHIP">>), Phrase(<<"VOLUNTEER">>), Phrase(<<"AWARDS">>),
           <<In({"WORKSHOP", "WORKSHOPS"})>>, Phrase(<<"PERSONAL", SP, "DETAILS">>),
           Phrase(<<"KEY", SP, "SKILLS">>), Phrase(<<"CAREER", SP, "OBJECTIVE">>),
           Phrase(<<"HARD", SP, "SKILL">>), Phrase(<<"LANGUAGES", SP, "KNOWN">>) >>)

next_section_patterns ==
    << <<Bol, Ws, NextSectionNames, Ws, Opt(":"), Eol>>,
       <<Bol, NextSectionNames, Ws, Opt(":")>>,
       <<Bol, Ws, Lit("COURSEWORK"), Ws, Lit("/"), Ws, Lit("SKILLS")>>,
       Phrase(<<"MY", SP, "CONTACT">>) >>

\* blank lines, a line of dashes, a line of underscores
possible_breaks ==
    << <<Lit(NL), Ws, Lit(NL), Ws, Lit(NL)>>,
       <<Lit(NL), Ws, Lit("-"), Lit("-"), Lit("-")>>,
       <<Lit(NL), Ws, Lit("_"), Lit("_"), Lit("_")>> >>

\* (January|...|December)\s+\d{4}\s*(-|–)\s*
timeline_pattern ==
    <<In({"JANUARY", "FEBRUARY", "MARCH", "APRIL", "MAY", "JUNE", "JULY", "AUGUST", "SEPTEMBER",
          "OCTOBER", "NOVEMBER", "DECEMBER"}),
      Plus(WhiteTok), In(YearTok), Ws, In(DashTok), Ws>>

\* t[:n] for a count n of characters (a token the cut falls inside is left out)
RECURSIVE CutChars(_, _)
CutChars(t, n) ==
    IF t = <<>> \/ Len(t[1]) > n THEN <<>>
    ELSE <<t[1]>> \o CutChars(Tail(t), n - Len(t[1]))

\* the loop of the last fallback: at most 20 lines, up to two blank lines in a row
RECURSIVE LinesToTwoBlanks(_, _, _)
LinesToTwoBlanks(lines, i, blank_line_count) ==
    IF i > Min({20, Len(lines)}) THEN <<>>
    ELSE IF Strip(lines[i]) = <<>>
         THEN (IF blank_line_count + 1 >= 2 THEN <<>>
               ELSE <<lines[i]>> \o LinesToTwoBlanks(lines, i + 1, blank_line_count + 1))
         ELSE <<lines[i]>> \o LinesToTwoBlanks(lines, i + 1, 0)

\* no next section and no visual break: a chunk after a timeline marker, or the lines
SectionByTimeline(education_text, timeline_match) ==
    IF timeline_match # NoMatch
    THEN LET doubles == {i \in timeline_match.start..(Len(education_text) - 1) :
                            education_text[i] = NL /\ education_text[i + 1] = NL}
         IN  IF doubles # {} THEN Strip(Slice(education_text, 1, Min(doubles) - 1))
             ELSE Strip(CutChars(education_text,
                     CharLen(Slice(education_text, 1, timeline_match.start - 1)) + 250))
    ELSE Strip(JoinWith(LinesToTwoBlanks(Lines(education_text), 1, 0), <<NL>>))

\* no next section: the text up to the earliest visual break, if any
SectionByBreaks(education_text, breaks) ==
    IF breaks # {} THEN Strip(Slice(education_text, 1, Min(breaks) - 1))
    ELSE SectionByTimeline(education_text, Search(timeline_pattern, education_text))

\* education_section: the text up to the earliest start of a next-section match
SectionOfEducationText(education_text, nexts) ==
    IF nexts # {} THEN Strip(Slice(education_text, 1, Min(nexts) - 1))
    ELSE SectionByBreaks(education_text, StartsOf(possible_breaks, education_text))

education_section(education_text) ==
    SectionOfEducationText(education_text, StartsOf(next_section_patterns, education_text))

\* the upper-case forms of the tokens of t made of letters only ([A-Za-z]+)
AlphaToks(t) ==
    {Upper(t[i]) : i \in {j \in 1..Len(t) :
        IsWordTok(t[j]) /\ Upper(t[j]) \notin DigitTok \cup EmailTok \cup LinkedInTok \cup {"_"}}}

\* position after the longest run of tokens of S that starts at q
RunEnd(t, q, S) == Min({r \in q..(Len(t) + 1) : r = Len(t) + 1 \/ Upper(t[r]) \notin S})

\* re.findall / re.finditer: the successive non-overlapping matches from position s on
RECURSIVE FindAllFrom(_, _, _), FindAllNext(_, _, _)
FindAllFrom(pat, t, s) == FindAllNext(pat, t, SearchFrom(pat, t, s))
FindAllNext(pat, t, m) ==
    IF m = NoMatch THEN <<>>
    ELSE <<m>> \o FindAllFrom(pat, t, IF m.end > m.start THEN m.end ELSE m.end + 1)

\* text.replace("\n", " ")
ReplaceNewlines(t) == [i \in 1..Len(t) |-> IF t[i] = NL THEN SP ELSE t[i]]

\* the education keywords that are one word, and those of several tokens
KeywordWordTok ==
    {"BACHELOR", "MASTER", "DEGREE", "UNIVERSITY", "INSTITUTE", "COLLEGE", "SCHOOL", "GPA",
     "CGPA", "ENGINEERING", "SCIENCES", "ARTS", "COMMERCE", "DIPLOMA", "SECONDARY", "HSC",
     "SSLC", "ICSE", "CBSE", "PERCENTAGE", "GRADE", "CREC", "CUMULATIVE"}
keyword_phrases ==
    << Phrase(<<"B", ".", "E">>), Phrase(<<"B", ".", "TECH">>), Phrase(<<"M", ".", "TECH">>),
       Phrase(<<"PH", ".", "D">>), Phrase(<<"H", ".", "S", ".", "C">>),
       Phrase(<<"S", ".", "S", ".", "C">>), Phrase(<<"CLASS", SP, "12">>),
       Phrase(<<"CLASS", SP, "10">>), Phrase(<<"HIGH", SP, "SCHOOL">>),
       Phrase(<<"STATE", SP, "BOARD">>), Phrase(<<"SR", ".", SP, "SECONDARY">>),
       Phrase(<<"JYOTHI", SP, "HIGH", SP, "SCHOOL">>),
       Phrase(<<"GOVERNMENT", SP, "POLYTECHNIC">>), Phrase(<<"DMI", SP, "COLLEGE">>),
       Phrase(<<"PRE", "-", "UNIVERSITY", SP, "COURSE">>), Phrase(<<"MVJ", SP, "COLLEGE">>),
       Phrase(<<"ST", ".", SP, "JHON'S", SP, "ENGLISH", SP, "MEDIUM">>),
       Phrase(<<"PASS", SP, "PERCENTAGE">>) >>
\* the words of the model that have a one-word keyword inside them
KeywordInsideTok == KeywordWordTok \cup {"MASTERS", "COLLEGES"}

\* any(re.search(rf'\b{re.escape(keyword)}\b', t, re.IGNORECASE) for keyword in ...)
HasKeyword(t) == Found(<<Wb, Alt(<< <<In(KeywordWordTok)>> >> \o keyword_phrases), Wb>>, t)
\* any(kw.lower() in t.lower() for kw in education_keywords)
HasKeywordInside(t) == Found(<<Alt(<< <<In(KeywordInsideTok)>> >> \o keyword_phrases)>>, t)

\* (19|20)\d{2}\s*[-–—]\s*((19|20)\d{2}|present|current|ongoing), case kept
year_range_pattern ==
    <<In(YearTok), Ws, In(DashTok), Ws,
      Alt(<< <<In(YearTok)>>, <<Exact({"present", "current", "ongoing"})>> >>)>>

\* ---- strategy (a): the degree / institution / date range format
special_format_pattern(t) ==
    Phrase(<<"B", ".", "E", ".">>) \o
    <<Star(Toks(t)), Lit("ENGINEERING"), Star(Toks(t)),
      In(YearTok \cup PhoneTok), Ws, Lit("-"), Ws, In(YearTok \cup PhoneTok)>>

date_entries_pattern(t) ==
    LET month == Alt(<< <<Exact({"January", "February", "March", "April", "May", "June", "July",
                           "August", "September", "October", "November", "December"})>>, <<>> >>)
    IN  <<Plus(AlphaToks(t) \cup {".", SP, "&"}), Lit(NL),
          Plus(AlphaToks(t) \cup DigitTok \cup {SP}), Lit(NL),
          month, Ws, In(YearTok), Ws, Lit("-"), Ws, month, Ws, In(YearTok \cup PhoneTok)>>

\* (CGPA|Percentage|Pass percentage)[^\d]*([\d\.]+)(?:\/(\d+))?
score_pattern(t) ==
    <<Alt(<< <<Lit("CGPA")>>, <<Lit("PERCENTAGE")>>, Phrase(<<"PASS", SP, "PERCENTAGE">>) >>),
      Star(Toks(t) \ DigitTok), Plus(DigitTok \cup {"."}),
      Alt(<< <<Lit("/"), In(DigitTok)>>, <<>> >>)>>

\* score_text: " with {score_type} of {score}" and "/{denominator}"; m is score_match
ScoreText(t, m) ==
    IF m = NoMatch THEN <<>>
    ELSE LET typeEnd == m.start + (IF Upper(t[m.start]) = "PASS" THEN 3 ELSE 1)
             scoreStart == Max({q \in typeEnd..(m.end - 1) :
                                  /\ \A r \in typeEnd..(q - 1) : Upper(t[r]) \notin DigitTok
                                  /\ Upper(t[q]) \in DigitTok \cup {"."}})
             scoreEnd == RunEnd(t, scoreStart, DigitTok \cup {"."})
         IN  <<SP, "with", SP>> \o Slice(t, m.start, typeEnd - 1) \o <<SP, "of", SP>>
             \o Slice(t, scoreStart, scoreEnd - 1)
             \o (IF scoreEnd < m.end THEN Slice(t, scoreEnd, m.end - 1) ELSE <<>>)

\* f"{degree} from {institution}, {date_range}" for one match m of date_entries_pattern
DateEntry(t, m, score_text) ==
    LET n1 == Min({i \in m.start..(m.end - 1) : t[i] = NL})
        n2 == Min({i \in (n1 + 1)..(m.end - 1) : t[i] = NL})
    IN  Slice(t, m.start, n1 - 1) \o <<SP, "from", SP>> \o Slice(t, n1 + 1, n2 - 1)
        \o <<",", SP>> \o Slice(t, n2 + 1, m.end - 1) \o score_text

\* one entry for each match of date_entries, each with the same score_text
EntriesOfDates(section, date_entries, score_text) ==
    [i \in 1..Len(date_entries) |-> DateEntry(section, date_entries[i], score_text)]

SpecialFormatEntries(section) ==
    IF ~Found(special_format_pattern(section), section) THEN <<>>
    ELSE EntriesOfDates(section, FindAllFrom(date_entries_pattern(section), section, 1),
            IF Found(<<In({"CGPA", "PERCENTAGE"})>>, section)
            THEN ScoreText(section, Search(score_pattern(section), section)) ELSE <<>>)

\* ---- strategy (b): segmentation by entry markers
\* ^\s*-, ^\s*\*, ^\s*\d+\., ^[A-Za-z\s]+ -  (the bullet and the long dash of the other two
\* markers are not characters of the model)
entry_markers(line) ==
    << <<Ws, Lit("-")>>, <<Ws, Lit("*")>>, <<Ws, In(DigitTok), Lit(".")>>,
       <<Plus(AlphaToks(line) \cup WhiteTok), Lit(SP), Lit("-"), Lit(SP)>> >>

\* ^\s*{keyword}\b for the degree keywords
degree_start_pattern ==
    <<Ws, Alt(<< <<In({"BACHELOR", "MASTER", "HSC", "SSLC"})>>, Phrase(<<"PH", ".", "D">>),
                 Phrase(<<"B", ".", "E">>), Phrase(<<"B", ".", "TECH">>),
                 Phrase(<<"M", ".", "TECH">>), Phrase(<<"HIGHER", SP, "SECONDARY">>) >>), Wb>>

\* len(line) - len(line.lstrip())
Indent(line) == CharLen(Slice(line, 1, RunEnd(line, 1, WhiteTok) - 1))

\* new_entry for the line of index i (from 1)
NewEntry(line, i, previous_indent) ==
    \/ \E j \in 1..Len(entry_markers(line)) : MatchAt(entry_markers(line)[j], 1, line, 1) # 0
    \/ MatchAt(degree_start_pattern, 1, line, 1) # 0
    \/ Found(year_range_pattern, line)
    \/ previous_indent >= 0 /\ Indent(line) <= previous_indent /\ i > 1 /\ HasKeywordInside(line)

\* " ".join([l.strip() for l in current_entry]), appended when not empty
EntryText(current_entry) ==
    LET entry_text == JoinWith([i \in 1..Len(current_entry) |-> Strip(current_entry[i])], <<SP>>)
    IN  IF entry_text = <<>> THEN <<>> ELSE <<entry_text>>

\* variant with a slip: the entry that is open when the lines end is not added
RECURSIVE MarkerEntriesWithoutLast(_, _, _, _)
MarkerEntriesWithoutLast(lines, i, current_entry, previous_indent) ==
    IF i > Len(lines) THEN <<>>
    ELSE IF Strip(lines[i]) = <<>>
         THEN MarkerEntriesWithoutLast(lines, i + 1, current_entry, previous_indent)
    ELSE IF current_entry # <<>> /\ NewEntry(lines[i], i, previous_indent)
         THEN EntryText(current_entry)
              \o MarkerEntriesWithoutLast(lines, i + 1, <<lines[i]>>, Indent(lines[i]))
    ELSE MarkerEntriesWithoutLast(lines, i + 1, Append(current_entry, lines[i]), Indent(lines[i]))

RECURSIVE MarkerEntries(_, _, _, _)
MarkerEntries(lines, i, current_entry, previous_indent) ==
    IF i > Len(lines) THEN EntryText(current_entry)
    ELSE IF Strip(lines[i]) = <<>>
         THEN MarkerEntries(lines, i + 1, current_entry, previous_indent)
    ELSE IF current_entry # <<>> /\ NewEntry(lines[i], i, previous_indent)
         THEN EntryText(current_entry)
              \o MarkerEntries(lines, i + 1, <<lines[i]>>, Indent(lines[i]))
    ELSE MarkerEntries(lines, i + 1, Append(current_entry, lines[i]), Indent(lines[i]))

\* ---- strategy (c): degree / institution / percentage triples
TripleEntry(degree, institution, percentage) ==
    degree \o <<SP, "from", SP>> \o institution
    \o (IF percentage # <<>> THEN <<SP, "with", SP>> \o percentage ELSE <<>>)

\* some token of the line is in S, case kept ("Bachelor" in line)
HasTok(line, S) == \E k \in 1..Len(line) : line[k] \in S

RECURSIVE TripleEntries(_, _, _, _, _)
TripleEntries(lines, i, degree, institution, percentage) ==
    LET saved == IF degree # <<>> THEN <<TripleEntry(degree, institution, percentage)>> ELSE <<>>
    IN  IF i > Len(lines) THEN saved
        ELSE IF Strip(lines[i]) = <<>>
             THEN TripleEntries(lines, i + 1, degree, institution, percentage)
        ELSE IF \/ HasTok(lines[i], {"Bachelor", "Engineering", "SSLC"})
                \/ Found(<<Exact({"Higher"}), Exact({SP}), Exact({"Secondary"})>>, lines[i])
             THEN saved \o TripleEntries(lines, i + 1, Strip(lines[i]), <<>>, <<>>)
        ELSE IF HasTok(lines[i], {"College", "School"})
             THEN TripleEntries(lines, i + 1, degree, Strip(lines[i]), percentage)
        ELSE IF Toks(lines[i]) \cap {"PERCENTAGE", "CGPA"} # {}
             THEN TripleEntries(lines, i + 1, degree, institution, Strip(lines[i]))
        ELSE TripleEntries(lines, i + 1, degree, institution, percentage)

TripleStrategy(section) ==
    IF Found(<<Alt(<< Phrase(<<"BACHELOR", SP, "OF", SP, "ENGINEERING">>),
                      Phrase(<<"HIGHER", SP, "SECONDARY">>), Phrase(<<"SSLC">>) >>)>>, section)
    THEN TripleEntries(Lines(section), 1, <<>>, <<>>, <<>>)
    ELSE <<>>

\* [f(l) for l in ls if keep(l)] with f = strip
StrippedWhere(ls, keep(_)) ==
    LET kept == SelectSeq(ls, keep) IN [i \in 1..Len(kept) |-> Strip(kept[i])]

\* ---- strategy (d): the lines that hold an education keyword
KeywordLines(section) == StrippedWhere(Lines(section), HasKeyword)

\* ---- strategy (e): the paragraphs (split at blank lines) that hold an education keyword
KeywordParagraphs(section) ==
    LET paragraphs == SelectSeq(RegexSplit(<<Lit(NL), Ws, Lit(NL)>>, section),
                                LAMBDA para : Strip(para) # <<>> /\ HasKeyword(Strip(para)))
    IN  [i \in 1..Len(paragraphs) |-> Strip(ReplaceNewlines(Strip(paragraphs[i])))]

\* variant with a slip: the entries of the markers are added to those of the date ranges
education_entries_merged(section) ==
    SpecialFormatEntries(section) \o MarkerEntries(Lines(section), 1, <<>>, -1)

\* the segmentation waterfall, strategies (a) to (f); the last one is the whole section
education_entries(section) ==
    FirstNonEmpty(SpecialFormatEntries(section),
    FirstNonEmpty(MarkerEntries(Lines(section), 1, <<>>, -1),
    FirstNonEmpty(TripleStrategy(section),
    FirstNonEmpty(KeywordLines(section),
    FirstNonEmpty(KeywordParagraphs(section),
                  <<Strip(ReplaceNewlines(section))>>)))))

\* ---- validation of the entries
ValidEducationEntry(entry) ==
    \/ HasKeyword(entry)
    \/ Found(<<In({"UNIVERSITY", "COLLEGE", "INSTITUTE", "SCHOOL", "COLLEGES"})>>, entry)
    \/ Found(year_range_pattern, entry)
    \/ Found(<<In({"PERCENTAGE", "CGPA"})>>, entry)

\* the reconstruction from keywords over the non-blank lines of the section
RECURSIVE ConstructedEntries(_, _, _)
ConstructedEntries(lines, i, current_entry) ==
    LET joined == IF current_entry # <<>> THEN <<JoinWith(current_entry, <<SP>>)>> ELSE <<>>
    IN  IF i > Len(lines) THEN joined
        ELSE IF HasKeywordInside(lines[i])
             THEN (IF current_entry # <<>> /\ HasKeywordInside(JoinWith(current_entry, <<SP>>))
                   THEN joined \o ConstructedEntries(lines, i + 1, <<Strip(lines[i])>>)
                   ELSE ConstructedEntries(lines, i + 1, Append(current_entry, Strip(lines[i]))))
        ELSE IF current_entry # <<>>
             THEN ConstructedEntries(lines, i + 1, Append(current_entry, Strip(lines[i])))
        ELSE ConstructedEntries(lines, i + 1, current_entry)

\* ---- the formats handled one by one after validation
\* t[pos:end_pos] where end_pos is t.find('\n\n', pos), or pos + 200 when there is none
Context(t, pos) ==
    LET doubles == {i \in pos..(Len(t) - 1) : t[i] = NL /\ t[i + 1] = NL}
    IN  IF doubles # {} THEN Slice(t, pos, Min(doubles) - 1)
        ELSE CutChars(Slice(t, pos, Len(t)), 200)

\* the value a loop over lines[1:] leaves in a variable it assigns on the lines that
\* satisfy `is` and none of the earlier branches `isnt`; "" when never assigned
LastAssigned(lines, is(_), isnt(_)) ==
    LET at == {i \in 2..Len(lines) : is(lines[i]) /\ ~isnt(lines[i])}
    IN  IF at = {} THEN <<>> ELSE lines[Max(at)]

InsideToks(line, S) == Toks(line) \cap S # {}

\* a degree, then " from {institution}", " ({year})" and " with {percentage}" read in
\* the lines after the first; InstTok and PctTok are the words looked for, YearPat the
\* year pattern (none when the format has no year)
DegreeEntry(degree, lines, InstTok, PctTok, YearPat) ==
    LET inst(l) == InsideToks(l, InstTok)
        pct(l) == InsideToks(l, PctTok)
        institution == LastAssigned(lines, inst, LAMBDA l : FALSE)
        percentage == LastAssigned(lines, pct, inst)
        year == LastAssigned(lines, LAMBDA l : YearPat # <<>> /\ Found(YearPat, l),
                             LAMBDA l : inst(l) \/ pct(l))
    IN  degree
        \o (IF institution # <<>> THEN <<SP, "from", SP>> \o institution ELSE <<>>)
        \o (IF year # <<>> THEN <<SP, "(">> \o year \o <<")">> ELSE <<>>)
        \o (IF percentage # <<>> THEN <<SP, "with", SP>> \o percentage ELSE <<>>)

\* [l.strip() for l in t.split('\n') if l.strip()]
NonBlankLines(t) == StrippedWhere(Lines(t), LAMBDA l : Strip(l) # <<>>)

\* BE - <branch> Engineering, Pre-University Course, SSLC: one entry per match
mounesh_patterns(t) ==
    << <<Lit("BE"), Ws, In(DashTok), Ws, In(AlphaToks(t) \cup DigitTok), Ws, Lit("ENGINEERING")>>,
       Phrase(<<"PRE", "-", "UNIVERSITY", SP, "COURSE">>),
       <<Lit("SSLC")>> >>

MatchEntries(t, matches) ==
    [i \in 1..Len(matches) |->
        DegreeEntry(MatchedText(t, matches[i]),
                    LET lines == NonBlankLines(Context(t, matches[i].start))
                    IN  Slice(lines, 1, Min({3, Len(lines)})),
                    {"COLLEGE", "COLLEGES", "SCHOOL", "UNIVERSITY"},
                    {"PERCENTAGE", "CGPA", "%"}, <<>>)]

MouneshEntries(section) ==
    MatchEntries(section, FindAllFrom(mounesh_patterns(section)[1], section, 1))
    \o MatchEntries(section, FindAllFrom(mounesh_patterns(section)[2], section, 1))
    \o MatchEntries(section, FindAllFrom(mounesh_patterns(section)[3], section, 1))

\* a phrase searched with the case kept (str.find, the `in` of strings)
ExactPhrase(ws) == [i \in 1..Len(ws) |-> Exact({ws[i]})]

\* the text after "ACADEMIC RECORD" up to MY CONTACT, CERTIFICATION or PROJECT
AcademicSection(after) ==
    LET ends == StartsOf(<< ExactPhrase(<<"MY", SP, "CONTACT">>),
                            <<Exact({"CERTIFICATION", "CERTIFICATIONS"})>>,
                            <<Exact({"PROJECT", "PROJECTS"})>> >>, after)
    IN  Strip(Slice(after, 1, IF ends = {} THEN Len(after) ELSE Min(ends) - 1))

\* the entry of one degree of the academic record; m is where the degree is found
AcademicEntry(academic_section, degree, m) ==
    IF m = NoMatch THEN <<>>
    ELSE << DegreeEntry(degree, NonBlankLines(Strip(Context(academic_section, m.start))),
                        {"COLLEGE", "COLLEGES", "SCHOOL"}, {"PERCENTAGE", "GRADE", "%"},
                        <<In(YearTok \cup PhoneTok), Ws, In(DashTok), Ws,
                          In(YearTok \cup PhoneTok)>>) >>

AcademicEntries(academic_section, degrees) ==
    AcademicEntry(academic_section, degrees[1], Search(ExactPhrase(degrees[1]), academic_section))
    \o AcademicEntry(academic_section, degrees[2], Search(ExactPhrase(degrees[2]), academic_section))
    \o AcademicEntry(academic_section, degrees[3], Search(ExactPhrase(degrees[3]), academic_section))

AcademicRecordEntries(text) ==
    IF ~Found(Phrase(<<"ACADEMIC", SP, "RECORD">>), text) THEN <<>>
    ELSE AcademicEntries(
            AcademicSection(RegexSplit(Phrase(<<"ACADEMIC", SP, "RECORD">>), text)[2]),
            << <<"Bachelor", SP, "of", SP, "Engineering">>, <<"Higher", SP, "Secondary">>,
               <<"SSLC">> >>)

\* the three patterns of the "B.E.Electrical" format, case kept
be_pattern(t) ==
    ExactPhrase(<<"B", ".", "E", ".">>) \o
    <<In(AlphaToks(t) \cup DigitTok), Ws, Alt(<< <<Exact({"&"})>>, <<>> >>), Ws,
      Alt(<< <<In(AlphaToks(t) \cup DigitTok)>>, <<>> >>), Ws, Exact({"Engineering"}), Lit(NL),
      Plus(AlphaToks(t) \cup WhiteTok), Lit(NL),
      In(AlphaToks(t)), Plus(WhiteTok), In(YearTok), Ws, Lit("-"), Ws,
      In(AlphaToks(t)), Plus(WhiteTok), In(YearTok), Lit(NL)>> \o
    ExactPhrase(<<"Cumulative", SP, "CGPA">>) \o
    <<Star(Toks(t) \ DigitTok), Plus(DigitTok \cup {"."}), Lit("/"), Plus(DigitTok \cup {"."})>>

diploma_pattern(t) ==
    <<Exact({"Diploma"}), Lit(NL), Plus(AlphaToks(t) \cup WhiteTok), Lit(NL)>> \o
    ExactPhrase(<<"Pass", SP, "percentage", SP, "of", SP>>) \o
    <<Plus(DigitTok \cup {"."}), Lit("%")>>

sslc_pattern(t) ==
    <<Exact({"SSLC"}), Lit(NL), Plus(AlphaToks(t) \cup WhiteTok \cup {","}), Lit(NL)>> \o
    ExactPhrase(<<"With", SP, "CGPA", SP, "of", SP>>) \o
    <<Plus(DigitTok \cup {"."}), Lit("/"), Plus(DigitTok \cup {"."})>>

BEEntry(pat, t, m) ==
    IF m = NoMatch THEN <<>>
    ELSE << <<"B", ".", "E", ".", SP>> \o Group(pat, t, m, 5, 9)
            \o <<SP, "Engineering", SP, "from", SP>> \o Group(pat, t, m, 13, 13)
            \o <<SP, "(">> \o Group(pat, t, m, 15, 23)
            \o <<")", SP, "with", SP, "CGPA", SP>> \o Group(pat, t, m, 29, 29)
            \o <<"/">> \o Group(pat, t, m, 31, 31) >>

DiplomaEntry(pat, t, m) ==
    IF m = NoMatch THEN <<>>
    ELSE << <<"Diploma", SP, "from", SP>> \o Group(pat, t, m, 3, 3)
            \o <<SP, "with", SP, "Pass", SP, "percentage", SP, "of", SP>>
            \o Group(pat, t, m, 11, 11) \o <<"%">> >>

SSLCEntry(pat, t, m) ==
    IF m = NoMatch THEN <<>>
    ELSE << <<"SSLC", SP, "from", SP>> \o Group(pat, t, m, 3, 3)
            \o <<SP, "with", SP, "CGPA", SP, "of", SP>> \o Group(pat, t, m, 11, 11)
            \o <<"/">> \o Group(pat, t, m, 13, 13) >>

\* "B.E.Electrical" in text
HasBEElectrical(text) == Found(ExactPhrase(<<"B", ".", "E", ".", "Electrical">>), text)

BEElectricalEntries(text) ==
    IF ~HasBEElectrical(text) THEN <<>>
    ELSE BEEntry(be_pattern(text), text, Search(be_pattern(text), text))
         \o DiplomaEntry(diploma_pattern(text), text, Search(diploma_pattern(text), text))
         \o SSLCEntry(sslc_pattern(text), text, Search(sslc_pattern(text), text))

\* ---- the function
\* variant with a slip: the segmented entries are returned as they are
EducationResultUnvalidated(text, section, entries) == entries

\* what is returned for the segmented entries of the section
EducationResult(text, section, entries) ==
    FirstNonEmpty(SelectSeq(entries, ValidEducationEntry),
    FirstNonEmpty(ConstructedEntries(SelectSeq(Lines(section), LAMBDA l : Strip(l) # <<>>),
                                     1, <<>>),
    FirstNonEmpty(MouneshEntries(section),
    FirstNonEmpty(AcademicRecordEntries(text),
    FirstNonEmpty(BEElectricalEntries(text),
                  IF HasBEElectrical(text) THEN <<>> ELSE entries)))))

EducationOfSection(text, section) == EducationResult(text, section, education_entries(section))

\* start is where education_text starts in text, 0 when no start was found
EducationFrom(text, start) ==
    IF start = 0 THEN <<>>
    ELSE EducationOfSection(text, education_section(Slice(text, start, Len(text))))

extract_education(text) ==
    EducationFrom(text, EducationStartEnd(text,
                            FirstSearchFrom(education_start_patterns, text, 1),
                            FirstSearchFrom(degree_patterns, text, 1)))

(***************************************************************************)
(* extract_contact_details.                                                *)
(***************************************************************************)
\* os.path.splitext(filename)[0]: the extension starts at the last period of the last
\* path component, unless only periods stand before it
SplitextBase(filename) ==
    LET dots == {i \in 1..Len(filename) : filename[i] = "."}
        seps == {i \in 1..Len(filename) : filename[i] = "/"}
        dot == IF dots = {} THEN 0 ELSE Max(dots)
        sep == IF seps = {} THEN 0 ELSE Max(seps)
    IN  IF dot > sep /\ (\E j \in (sep + 1)..(dot - 1) : filename[j] # ".")
        THEN Slice(filename, 1, dot - 1) ELSE filename

words_to_omit ==
    {"RESUME", "UPDATED", "UPDATE", "PROFILE", "CV", "LATEST", "FINAL", "NEW", "PDF", "UPLOADED"}

\* str.title() and str.lower() of the word tokens of the model
TitleMap ==
    "jdoe" :> "Jdoe" @@ "cv" :> "Cv" @@ "pdf" :> "Pdf" @@ "txt" :> "Txt" @@ "c" :> "C" @@
    "v" :> "V" @@ "not" :> "Not" @@ "found" :> "Found" @@ "bangalore" :> "Bangalore" @@
    "aurangabad" :> "Aurangabad" @@ "chennai" :> "Chennai" @@ "delhi" :> "Delhi" @@
    "new" :> "New" @@ "vasco" :> "Vasco" @@ "da" :> "Da" @@ "gama" :> "Gama"
LowerMap ==
    "Jdoe" :> "jdoe" @@ "Cv" :> "cv" @@ "C" :> "c" @@ "V" :> "v" @@ "John" :> "john" @@
    "Doe" :> "doe" @@ "Resume" :> "resume" @@ "Not" :> "not" @@ "Found" :> "found" @@
    "Bangalore" :> "bangalore" @@ "Aurangabad" :> "aurangabad" @@ "Chennai" :> "chennai" @@
    "Delhi" :> "delhi" @@ "New" :> "new" @@ "Vasco" :> "vasco" @@ "Gama" :> "gama"
TitleTok(x) == IF x \in DOMAIN TitleMap THEN TitleMap[x] ELSE x
LowerTok(x) == IF x \in DOMAIN LowerMap THEN LowerMap[x] ELSE x

RECURSIVE GlueLower(_, _, _, _)
\* acc followed by the lower case of the tokens i..j of t, as one token
GlueLower(acc, t, i, j) == IF i > j THEN acc ELSE GlueLower(acc \o LowerTok(t[i]), t, i + 1, j)

RECURSIVE Title(_)
\* str.title(): every word gets a capital on its first letter and lower case on the
\* others.  Word tokens that stand side by side (a symbol between them was removed)
\* are one word, and come out as one token.
Title(t) ==
    IF t = <<>> THEN t
    ELSE IF IsWordTok(t[1])
         THEN LET e == Min({r \in 2..(Len(t) + 1) : r = Len(t) + 1 \/ ~IsWordTok(t[r])})
              IN  <<GlueLower(TitleTok(t[1]), t, 2, e - 1)>> \o Title(Slice(t, e, Len(t)))
    ELSE <<t[1]>> \o Title(Tail(t))

\* re.sub(pattern, '', t) for a pattern that matches the whole tokens of S
Without(t, S) == SelectSeq(t, LAMBDA x : Upper(x) \notin S)

RECURSIVE CollapseSpaces(_)
\* re.sub(r'\s+', ' ', t)
CollapseSpaces(t) ==
    IF t = <<>> THEN t
    ELSE IF t[1] \in WhiteTok
         THEN <<SP>> \o CollapseSpaces(Slice(t, RunEnd(t, 1, WhiteTok), Len(t)))
    ELSE <<t[1]>> \o CollapseSpaces(Tail(t))

\* the name read in the file name; "" when nothing is left
NameOfBase(base_name) ==
    Title(Strip(CollapseSpaces(
        Without(Without(Without([i \in 1..Len(base_name) |->
                                    IF base_name[i] \in {"_", "-"} THEN SP ELSE base_name[i]],
                                words_to_omit),
                        DigitTok),
                {"-", "(", ")"}))))

\* re.sub(r'(?<!\s)(www\.)', r' \1', t): a blank goes before every "www." that no
\* whitespace precedes (the words of the model do not end with "www")
RECURSIVE WwwSpacedFrom(_, _)
WwwSpacedFrom(t, i) ==
    IF i > Len(t) THEN <<>>
    ELSE (IF /\ t[i] = "www" /\ i < Len(t) /\ t[i + 1] = "."
             /\ (i = 1 \/ t[i - 1] \notin WhiteTok)
          THEN <<SP>> ELSE <<>>) \o <<t[i]>> \o WwwSpacedFrom(t, i + 1)

WwwSpaced(t) == WwwSpacedFrom(t, 1)

\* the words of t made of letters and digits (an address written as one token is not one)
PlainWordToks(t) ==
    {Upper(t[i]) : i \in {j \in 1..Len(t) : /\ IsWordTok(t[j]) /\ t[j] # "_"
                                            /\ Upper(t[j]) \notin EmailTok \cup LinkedInTok}}

\* the words of t that [a-zA-Z]{2,} matches whole
LetterWordToks(t) ==
    {Upper(t[i]) : i \in {j \in 1..Len(t) : /\ IsWordTok(t[j]) /\ t[j] # "_" /\ Len(t[j]) >= 2
                                            /\ Upper(t[j]) \notin EmailTok \cup LinkedInTok
                                            /\ t[j] \notin DigitTok}}

\* [a-zA-Z0-9._%+-]+@[a-zA-Z0-9.-]+\.[a-zA-Z]{2,}; an address may also stand in the
\* text as one token
email_pattern(t) ==
    <<Alt(<< <<In(EmailTok)>>,
             <<Plus(PlainWordToks(t) \cup {"_", ".", "%", "+", "-"}), In({"@"}),
               Plus(PlainWordToks(t) \cup {".", "-"}), In({"."}), In(LetterWordToks(t))>> >>)>>

\* email_matches[0], "Not Found" when the list is empty
EmailOf(text, m) == IF m = NoMatch THEN NotFound ELSE Slice(text, m.start, m.end - 1)

\* The phone patterns count digits, so they are matched on the characters of the text:
\* "d" for every digit of a digit token, the token itself for a separator, a sign or a
\* bracket, "x" for any other token.
RECURSIVE PhoneChars(_)
PhoneChars(t) ==
    IF t = <<>> THEN <<>>
    ELSE (IF t[1] \in DigitTok THEN [k \in 1..Len(t[1]) |-> "d"]
          ELSE IF t[1] \in {"-", ".", SP, NL, "+", "(", ")"} THEN <<t[1]>>
          ELSE <<"x">>) \o PhoneChars(Tail(t))

\* the token of t that begins at the character c (one past the last token for the end)
TokenAt(t, c) == CHOOSE i \in 1..(Len(t) + 1) : Len(PhoneChars(Slice(t, 1, i - 1))) + 1 = c

\* the text of the match m found in the characters of text
PhoneText(text, m) == Slice(text, TokenAt(text, m.start), TokenAt(text, m.end) - 1)

PhoneDigit == In({"d"})
PhoneSep == Alt(<< <<In({"-", ".", SP, NL})>>, <<>> >>)             \* [-.\s]?
PhonePrefix ==                                                      \* (?:\+\d{1,3}[-.\s]?)?
    Alt(<< <<In({"+"}), PhoneDigit, PhoneDigit, PhoneDigit, PhoneSep>>,
           <<In({"+"}), PhoneDigit, PhoneDigit, PhoneSep>>,
           <<In({"+"}), PhoneDigit, PhoneSep>>,
           <<>> >>)

phone_patterns ==
    << <<PhonePrefix, Opt("("), PhoneDigit, PhoneDigit, PhoneDigit, Opt(")"), PhoneSep,
         PhoneDigit, PhoneDigit, PhoneDigit, PhoneSep,
         PhoneDigit, PhoneDigit, PhoneDigit, PhoneDigit>>,
       <<PhonePrefix, PhoneDigit, PhoneDigit, PhoneDigit, PhoneSep,
         PhoneDigit, PhoneDigit, PhoneDigit, PhoneSep,
         PhoneDigit, PhoneDigit, PhoneDigit, PhoneDigit>>,
       <<PhonePrefix, PhoneDigit, PhoneDigit, PhoneDigit, PhoneDigit, PhoneDigit,
         PhoneDigit, PhoneDigit, PhoneDigit, PhoneDigit, PhoneDigit, Star({"d"})>> >>

\* variant with a slip: the patterns are tried from the last to the first
phone_patterns_reversed == <<phone_patterns[3], phone_patterns[2], phone_patterns[1]>>

\* phone_matches[0] of the first pattern that has matches, "Not Found" when none has
RECURSIVE PatternPhoneFrom(_, _, _, _)
PatternPhoneFrom(text, chars, patterns, k) ==
    IF k > Len(patterns) THEN NotFound
    ELSE IF Found(patterns[k], chars) THEN PhoneText(text, Search(patterns[k], chars))
    ELSE PatternPhoneFrom(text, chars, patterns, k + 1)

PatternPhone(text, patterns) == PatternPhoneFrom(text, PhoneChars(text), patterns, 1)

\* What the phone-number library does when it is asked: it finds no number, it finds one
\* (its international form is given), or it raises.
NoNumber == [kind |-> "none", international |-> <<>>]
LibraryFault == [kind |-> "fault", international |-> <<>>]
LibraryNumber(international) == [kind |-> "number", international |-> international]

\* the try block: the first match of PhoneNumberMatcher, formatted; `except: pass`
LibraryPhone(phonenumbers) ==
    IF phonenumbers.kind = "number" THEN phonenumbers.international ELSE NotFound

\* variant with a slip: the library is asked first
PhoneOfLibraryFirst(pattern_phone, phonenumbers) ==
    IF LibraryPhone(phonenumbers) = NotFound THEN pattern_phone ELSE LibraryPhone(phonenumbers)

\* the library is asked only when the patterns left "Not Found"
PhoneOf(pattern_phone, phonenumbers) ==
    IF pattern_phone = NotFound THEN LibraryPhone(phonenumbers) ELSE pattern_phone

\* indian_cities_states, for the city names of the model: the states in the order of the
\* source, each with its cities in the order of the source.  Aurangabad is listed under
\* two states; "Vasco da Gama" is not spelled as str.title() spells it.
indian_cities_states ==
    << [state |-> <<"Karnataka">>, cities |-> << <<"Bangalore">> >>],
       [state |-> <<"Maharashtra">>, cities |-> << <<"Aurangabad">> >>],
       [state |-> <<"Tamil", SP, "Nadu">>, cities |-> << <<"Chennai">> >>],
       [state |-> <<"Delhi">>, cities |-> << <<"Delhi">>, <<"New", SP, "Delhi">> >>],
       [state |-> <<"Bihar">>, cities |-> << <<"Aurangabad">> >>],
       [state |-> <<"Goa">>, cities |-> << <<"Vasco", SP, "da", SP, "Gama">> >>] >>

\* city.lower()
LowerCity(city) == [i \in 1..Len(city) |-> LowerTok(city[i])]

\* variant with a slip: a city that is in the lookup already keeps its state
SetCityKeepFirst(rows, city, state) ==
    IF \E k \in 1..Len(rows) : rows[k].city = city THEN rows
    ELSE Append(rows, [city |-> city, state |-> state])

\* city_to_state[city] = state: a new key goes last, a key that is there keeps its place
\* and takes the new state
SetCity(rows, city, state) ==
    IF \E k \in 1..Len(rows) : rows[k].city = city
    THEN [k \in 1..Len(rows) |-> IF rows[k].city = city THEN [city |-> city, state |-> state]
                                                        ELSE rows[k]]
    ELSE Append(rows, [city |-> city, state |-> state])

\* the two loops that flatten the gazetteer, from city c of state s on
RECURSIVE Flatten(_, _, _, _)
Flatten(states, s, c, rows) ==
    IF s > Len(states) THEN rows
    ELSE IF c > Len(states[s].cities) THEN Flatten(states, s + 1, 1, rows)
    ELSE Flatten(states, s, c + 1, SetCity(rows, LowerCity(states[s].cities[c]), states[s].state))

\* The rows of the flattened gazetteer, in iteration order: the key is the city in lower
\* case.
city_to_state == Flatten(indian_cities_states, 1, 1, <<>>)

CitiesIn(line) == {c \in 1..Len(city_to_state) : ContainsPhrase(line, city_to_state[c].city)}

\* variant with a slip: the last city of the gazetteer found on the line is taken
LocationOfLastCity(lines) ==
    LET at == {i \in 1..Len(lines) : CitiesIn(lines[i]) # {}}
    IN  IF at = {} THEN NotFound
        ELSE Title(city_to_state[Max(CitiesIn(lines[Min(at)]))].city) \o <<",", SP>>
             \o city_to_state[Max(CitiesIn(lines[Min(at)]))].state

\* found_city of the first line that holds a city, then f"{found_city.title()}, {state}"
LocationOf(lines) ==
    LET at == {i \in 1..Len(lines) : CitiesIn(lines[i]) # {}}
    IN  IF at = {} THEN NotFound
        ELSE Title(city_to_state[Min(CitiesIn(lines[Min(at)]))].city) \o <<",", SP>>
             \o city_to_state[Min(CitiesIn(lines[Min(at)]))].state

\* variant with a slip: the first line of the text is taken for the name
ContactOfNameFromText(name, text, lines, phonenumbers) ==
    [Name |-> IF lines # <<>> THEN lines[1] ELSE IF name # <<>> THEN name ELSE NotFound,
     Email |-> EmailOf(text, Search(email_pattern(text), text)),
     Phone |-> PhoneOf(PatternPhone(text, phone_patterns), phonenumbers),
     Location |-> LocationOf(lines)]

\* text is the text after the "www." step, lines the stripped non-blank lines of the
\* text before it
ContactOf(name, text, lines, phonenumbers) ==
    [Name |-> IF name # <<>> THEN name ELSE NotFound,
     Email |-> EmailOf(text, Search(email_pattern(text), text)),
     Phone |-> PhoneOf(PatternPhone(text, phone_patterns), phonenumbers),
     Location |-> LocationOf(lines)]

\* phonenumbers: the behaviour of the imported phone-number library on this text
extract_contact_details(text, filename, phonenumbers) ==
    ContactOf(NameOfBase(SplitextBase(filename)), WwwSpaced(text), NonBlankLines(text),
              phonenumbers)

(***************************************************************************)
(* extract_skills.                                                         *)
(***************************************************************************)
\* all_keywords: the keywords of the categories, lower case, in order
all_keywords ==
    << <<"python">>, <<"java">>, <<"c", "+", "+">>, <<"c", "#">>, <<"javascript">>,
       <<"typescript">>, <<"ruby">>, <<"php">>, <<"swift">>, <<"kotlin">>, <<"go">>, <<"rust">>,
       <<"scala">>,
       <<"html">>, <<"css">>, <<"react">>, <<"angular">>, <<"vue">>, <<"django">>, <<"flask">>,
       <<"nodejs">>, <<"express">>, <<"spring">>, <<".", "net">>, <<"asp", ".", "net">>,
       <<"mysql">>, <<"postgresql">>, <<"mongodb">>, <<"sqlite">>, <<"oracle">>, <<"sql">>,
       <<"nosql">>, <<"redis">>, <<"cassandra">>, <<"power", SP, "bi">>, <<"excel">>,
       <<"tableau">>,
       <<"aws">>, <<"azure">>, <<"google", SP, "cloud">>, <<"heroku">>,
       <<"digital", SP, "ocean">>, <<"amazon", SP, "web", SP, "services">>,
       <<"cloud", SP, "computing">>,
       <<"docker">>, <<"kubernetes">>, <<"jenkins">>, <<"git">>, <<"github">>, <<"gitlab">>,
       <<"ansible">>, <<"terraform">>, <<"ci", "/", "cd">>,
       <<"tensorflow">>, <<"pytorch">>, <<"scikit", "-", "learn">>, <<"keras">>,
       <<"machine", SP, "learning">>, <<"deep", SP, "learning">>, <<"nlp">>,
       <<"computer", SP, "vision">>,
       <<"spring", SP, "boot">>, <<"django">>, <<"flask">>, <<"react">>, <<"angular">>,
       <<"vue">>, <<"laravel">>, <<"symfony">>, <<"express">> >>

\* variant with a slip: the list keeps a keyword once for each time the taxonomy has it
KeywordsInWithRepeats(t) ==
    SelectSeq(all_keywords, LAMBDA kw : ContainsPhrase(t, kw))

\* list(skills) for the set of the keywords found in t as whole words; a keyword is
\* listed once, in the order of all_keywords (the order of a set is not specified)
KeywordsIn(t) ==
    LET hit == {k \in 1..Len(all_keywords) :
                  /\ ContainsPhrase(t, all_keywords[k])
                  /\ \A j \in 1..(k - 1) : all_keywords[j] # all_keywords[k]}
        RECURSIVE listed(_)
        listed(k) == IF k > Len(all_keywords) THEN <<>>
                     ELSE (IF k \in hit THEN <<all_keywords[k]>> ELSE <<>>) \o listed(k + 1)
    IN  listed(1)

\* variant with a slip: the section's keywords and the document's are merged
SkillsOfWholeText(text, skills_section) == KeywordsIn(text)

\* the keywords of the skills section when it has any, else those of the whole text
SkillsOf(text, skills_section) ==
    FirstNonEmpty(IF skills_section # <<>> THEN KeywordsIn(skills_section) ELSE <<>>,
                  KeywordsIn(text))

extract_skills(text) ==
    SkillsOf(text, extract_section(text, << <<"Skills">>, <<"Technical", SP, "Skills">>,
                                             <<"Competencies">>, <<"Expertise">> >>).body)

(***************************************************************************)
(* upload_resume (the upload handler).  Each request runs the handler in   *)
(* its own thread; the uploads folder is the one thing requests share.     *)
(***************************************************************************)
ALLOWED_EXTENSIONS == {"pdf"}

\* "." in filename and filename.rsplit(".", 1)[1].lower() in ALLOWED_EXTENSIONS
allowed_file(filename) ==
    LET dots == {i \in 1..Len(filename) : filename[i] = "."}
    IN  /\ dots # {}
        /\ Len(filename) = Max(dots) + 1
        /\ Upper(filename[Len(filename)]) \in {Upper(e) : e \in ALLOWED_EXTENSIONS}

\* the content of a file: a PDF with the text of its pages, or something fitz cannot open
Pdf(pages) == [pdf |-> TRUE, pages |-> pages]
Broken == [pdf |-> FALSE, pages |-> <<>>]

\* "\n".join(page.get_text("text") for page in doc)
extract_text_from_pdf(doc) == JoinWith(doc.pages, <<NL>>)

\* the functions called for the fields of parsed_data; any of them may raise
Extractors ==
    {"extract_contact_details", "extract_education", "extract_experience", "extract_skills"}

ParsedData(text, filename) ==
    [contact_details |-> extract_contact_details(text, filename, NoNumber),
     education |-> extract_education(text),
     experience |-> extract_experience(text),
     skills |-> extract_skills(text)]

ResultOf(filename, parsed_data) ==
    [filename |-> filename, parsed_data |-> parsed_data,
     ats_score |-> generate_ats_score(parsed_data)]

\* variant with a slip: the result is put in front of the list
PrependResult(rs, result) == <<result>> \o rs

\* results.append({...})
AppendResult(rs, result) == Append(rs, result)

\* the (body, status) pairs the handler returns
NoFileUploaded == [status |-> 400, body |-> [error |-> <<"No file uploaded">>]]
NoSelectedFile == [status |-> 400, body |-> [error |-> <<"No selected file">>]]
InvalidFileType(filename) ==
    [status |-> 400,
     body |-> [error |-> <<"Invalid file type for ">> \o filename \o <<". Only PDFs are allowed.">>]]
ProcessingError(filename, e) ==
    [status |-> 500, body |-> [error |-> <<"Error processing file ">> \o filename \o <<": ", e>>]]
Success(rs) == [status |-> 200, body |-> rs]

\* return: the request is answered and the handler is left
Respond(r, answer) ==
    /\ response' = [response EXCEPT ![r] = answer]
    /\ pc' = [pc EXCEPT ![r] = "done"]

Continue(r, label) ==
    /\ pc' = [pc EXCEPT ![r] = label]
    /\ UNCHANGED response

\* the history of what the request did to the file of index idx[r]
Log(r, op) == ops' = [ops EXCEPT ![r] = Append(@, [op |-> op, idx |-> idx[r]])]

\* the file the loop is at, and the files stored under its path
File(r) == request[r][idx[r]]
Stored(r) == {u \in uploads : u.filename = File(r).filename}

\* the two early returns before the loop
Receive(r) ==
    /\ pc[r] = "receive"
    /\ IF request[r] = <<>> THEN Respond(r, NoFileUploaded)
       ELSE IF request[r][1].filename = <<>> THEN Respond(r, NoSelectedFile)
       ELSE Continue(r, "validate")
    /\ UNCHANGED <<uploads, request, idx, read_text, results, ops, arg, ret, called>>

\* if not allowed_file(file.filename): return ..., 400
Validate(r) ==
    /\ pc[r] = "validate"
    /\ IF ~allowed_file(File(r).filename) THEN Respond(r, InvalidFileType(File(r).filename))
       ELSE Continue(r, "save")
    /\ UNCHANGED <<uploads, request, idx, read_text, results, ops, arg, ret, called>>

\* file.save(os.path.join(UPLOAD_FOLDER, file.filename)): the path is (over)written
Save(r) ==
    /\ pc[r] = "save"
    /\ uploads' = (uploads \ Stored(r)) \cup {File(r)}
    /\ Log(r, "save")
    /\ Continue(r, "read")
    /\ UNCHANGED <<request, idx, read_text, results, arg, ret, called>>

\* text = extract_text_from_pdf(file_path): fitz.open raises when the path does not
\* exist or does not hold a PDF
Read(r) ==
    /\ pc[r] = "read"
    /\ IF Stored(r) = {}
       THEN Respond(r, ProcessingError(File(r).filename, "FileNotFoundError"))
            /\ UNCHANGED <<read_text, ops>>
       ELSE \E u \in Stored(r) :
              IF ~u.content.pdf
              THEN Respond(r, ProcessingError(File(r).filename, "cannot open broken document"))
                   /\ UNCHANGED <<read_text, ops>>
              ELSE /\ read_text' = [read_text EXCEPT ![r] = extract_text_from_pdf(u.content)]
                   /\ Log(r, "read")
                   /\ Continue(r, "analyze")
    /\ UNCHANGED <<uploads, request, idx, results, arg, ret, called>>

\* parsed_data, ats_score and results.append, all inside the one try block: an exception
\* of any extractor is answered with a 500
Analyze(r) ==
    /\ pc[r] = "analyze"
    /\ \E fault \in {"none"} \cup Extractors :
          IF fault # "none"
          THEN Respond(r, ProcessingError(File(r).filename, fault))
               /\ UNCHANGED <<results, ops>>
          ELSE /\ results' = [results EXCEPT ![r] =
                     AppendResult(@, ResultOf(File(r).filename,
                                              ParsedData(read_text[r], File(r).filename)))]
               /\ Log(r, "analyze")
               /\ Continue(r, "remove")
    /\ UNCHANGED <<uploads, request, idx, read_text, arg, ret, called>>

\* os.remove(file_path), then the next file of the loop
Remove(r) ==
    /\ pc[r] = "remove"
    /\ IF Stored(r) = {}
       THEN Respond(r, ProcessingError(File(r).filename, "FileNotFoundError"))
            /\ UNCHANGED <<uploads, idx, ops>>
       ELSE /\ uploads' = uploads \ Stored(r)
            /\ Log(r, "remove")
            /\ idx' = [idx EXCEPT ![r] = @ + 1]
            /\ Continue(r, IF idx[r] < Len(request[r]) THEN "validate" ELSE "return")
    /\ UNCHANGED <<request, read_text, results, arg, ret, called>>

\* return jsonify(results), 200
Return(r) ==
    /\ pc[r] = "return"
    /\ Respond(r, Success(results[r]))
    /\ UNCHANGED <<uploads, request, idx, read_text, results, ops, arg, ret, called>>

\*+++ specifications
(***************************************************************************)
(* Specifications.  The pure functions are checked one per specification:  *)
(* Init draws the input, the action applies the function.                  *)
(***************************************************************************)
HandlerOff ==
    /\ uploads = {} /\ pc = <<>> /\ request = <<>> /\ idx = <<>> /\ read_text = <<>>
    /\ results = <<>> /\ response = <<>> /\ ops = <<>>

\* the texts of at most n lines, each drawn from menu
TextsOf(menu, n) ==
    {JoinWith(ls, <<NL>>) : ls \in UNION {[1..k -> menu] : k \in 0..n}}

Apply(name, value) ==
    /\ called = "none"
    /\ called' = name
    /\ ret' = value
    /\ UNCHANGED <<arg, uploads, pc, request, idx, read_text, results, response, ops>>

\* ---- generate_ats_score
FieldValues == {NotFound, <<"x">>}
EntryLists == UNION {[1..k -> {<<>>, <<"x">>}] : k \in 0..MaxEntries}
Profiles ==
    [contact_details : [Name : FieldValues, Email : FieldValues,
                        Phone : FieldValues, Location : FieldValues],
     education : EntryLists, experience : {<<>>, <<<<"x">>>>}, skills : {<<>>, <<<<"python">>>>}]

ScoreInit == HandlerOff /\ arg \in Profiles /\ ret = None /\ called = "none"
ScoreCall == Apply("generate_ats_score", generate_ats_score(arg))
SpecScore == ScoreInit /\ [][ScoreCall]_vars

\* ---- extract_section
SectionLineMenu ==
    { <<"Skills">>, <<"Technical", SP, "Skills">>, <<"SKILLS", ":">>, <<"Upskills">>,
      <<"Python">>, <<"Education">>, <<"Work", SP, "Experience">>, <<>> }
HeaderLists ==
    { << <<"Skills">>, <<"Technical", SP, "Skills">>, <<"Competencies">>, <<"Expertise">> >>,
      << <<"EDUCATION">> >>,
      << <<"Work", SP, "Experience">> >> }

SectionInit ==
    /\ HandlerOff /\ ret = None /\ called = "none"
    /\ arg \in [text : TextsOf(SectionLineMenu, MaxLines), section_headers : HeaderLists]
SectionCall == Apply("extract_section", extract_section(arg.text, arg.section_headers))
SpecSection == SectionInit /\ [][SectionCall]_vars

\* ---- the experience extractor
ExperienceLineMenu ==
    { <<SP, "experience", SP>>, <<"Work", SP, "Experience", ":">>,
      <<"EDUCATION">>, <<"SKILLS">>, <<"Acme", SP, "Manager">>, <<"Led", SP, "foo", ".">>,
      <<"Jan", SP, "2019", SP, "-", SP, "Present">> }

ExperienceInit ==
    /\ HandlerOff /\ ret = None /\ called = "none"
    /\ arg \in TextsOf(ExperienceLineMenu, MaxExpLines)
ProcessResumeCall == Apply("process_resume", process_resume(arg))
ExtractExperienceCall == Apply("extract_experience", extract_experience(arg))
SpecExperience == ExperienceInit /\ [][ProcessResumeCall \/ ExtractExperienceCall]_vars

\* ---- extract_experience_section alone
ExtractExperienceSectionCall ==
    Apply("extract_experience_section", extract_experience_section(arg))
SpecExperienceSection == ExperienceInit /\ [][ExtractExperienceSectionCall]_vars

\* ---- parse_experience_entries, on the sections extract_experience gives it
EntriesLineMenu ==
    { <<"Experience">>, <<"Acme", SP, "Manager">>, <<"Led", SP, "foo", ".">>, <<"foo">>,
      <<"Jan", SP, "2019", SP, "-", SP, "Present">>, <<SP>>, <<"a@b.co">> }

\* the section, the entries the final filter is given, and the entries returned; None
\* when extract_experience returns before the call
ParsedEntriesOf(experience_section) ==
    IF experience_section = <<>> THEN None
    ELSE [experience_section |-> experience_section,
          entries |-> ExperienceSegments(experience_section),
          valid_entries |-> parse_experience_entries(experience_section)]

EntriesInit ==
    /\ HandlerOff /\ ret = None /\ called = "none"
    /\ arg \in TextsOf(EntriesLineMenu, MaxExpLines)
ParseExperienceEntriesCall ==
    Apply("parse_experience_entries", ParsedEntriesOf(extract_experience_section(arg)))
SpecExperienceEntries == EntriesInit /\ [][ParseExperienceEntriesCall]_vars

\* ---- parse_experience_details, on the entries extract_experience gives it
DetailsLineMenu ==
    { <<"Experience">>, <<"Acme">>, <<"Manager">>, <<SP>>,
      <<"Jan", SP, "2019", SP, "-", SP, "Present">>,
      <<"Acme", SP, "Jan", SP, "2019", SP, "-", SP, "Present">>,
      <<"Manager", SP, "|", SP, "Acme", SP, "|", SP, "Jan", SP, "2019", SP, "-", SP, "Present">>,
      <<"Manager", SP, "|", SP, "Jan", SP, "2019", SP, "-", SP, "Present">> }

\* the entries of the section and the record of each; None when extract_experience
\* returns before the loop over the entries
DetailsOfEntries(entries) ==
    [entries |-> entries,
     details |-> [i \in 1..Len(entries) |-> parse_experience_details(entries[i])]]

DetailsOf(experience_section) ==
    IF experience_section = <<>> THEN None
    ELSE DetailsOfEntries(parse_experience_entries(experience_section))

DetailsInit ==
    /\ HandlerOff /\ ret = None /\ called = "none"
    /\ arg \in TextsOf(DetailsLineMenu, MaxExpLines)
ParseExperienceDetailsCall ==
    Apply("parse_experience_details", DetailsOf(extract_experience_section(arg)))
SpecExperienceDetails == DetailsInit /\ [][ParseExperienceDetailsCall]_vars

\* ---- extract_education
EducationLineMenu ==
    { <<"EDUCATION">>, <<"Education", ":", SP, "foo">>, <<"SKILLS">>, <<>>,
      <<"B", ".", "Tech", SP, "College">>, <<"foo">>, <<"2019", SP, "-", SP, "2021">>,
      <<"-", SP, "CGPA", SP, "8">>, <<"Masters">> }

EducationInit ==
    /\ HandlerOff /\ ret = None /\ called = "none"
    /\ arg \in TextsOf(EducationLineMenu, MaxEduLines)
ExtractEducationCall == Apply("extract_education", extract_education(arg))
SpecEducation == EducationInit /\ [][ExtractEducationCall]_vars

\* ---- the segmentation of the education section (lines 472-606 of extract_education)
SegmentLineMenu ==
    { <<"EDUCATION">>, <<"B", ".", "E", ".", SP, "Engineering">>, <<"foo", SP, "College">>,
      <<"2019", SP, "-", SP, "2021">>, <<"foo">>, <<>>, <<SP>>, <<"-", SP, "CGPA", SP, "8">> }

\* the section the segmentation is given for the text, and its entries; None when
\* extract_education returns before it
SegmentedOf(text, start) ==
    IF start = 0 THEN None
    ELSE LET section == education_section(Slice(text, start, Len(text)))
         IN  [education_section |-> section, education_entries |-> education_entries(section)]

Segmented(text) ==
    SegmentedOf(text, EducationStartEnd(text,
                        FirstSearchFrom(education_start_patterns, text, 1),
                        FirstSearchFrom(degree_patterns, text, 1)))

SegmentInit ==
    /\ HandlerOff /\ ret = None /\ called = "none"
    /\ arg \in TextsOf(SegmentLineMenu, MaxEduLines)
SegmentCall == Apply("education_entries", Segmented(arg))
SpecEducationEntries == SegmentInit /\ [][SegmentCall]_vars

\* ---- extract_skills
SkillsLineMenu ==
    { <<"Skills">>, <<"Technical", SP, "Skills", ":", SP, "Java">>, <<"Education">>,
      <<"Python", ",", SP, "React", ",", SP, "MySQL">>, <<"sql">>,
      <<"c", "+", "+", ",", SP, "c", "#", ",", SP, ".", "net">>,
      <<"C", "+", "+", "11", SP, "asp", ".", "net">>,
      <<"go", "-", "getter">>, <<>> }

SkillsInit ==
    /\ HandlerOff /\ ret = None /\ called = "none"
    /\ arg \in TextsOf(SkillsLineMenu, MaxSkillLines)
ExtractSkillsCall == Apply("extract_skills", extract_skills(arg))
SpecSkills == SkillsInit /\ [][ExtractSkillsCall]_vars

\* ---- extract_contact_details
NameToks == {"jdoe", "cv", "c", "v", "2023", ".", "_", "-", "(", ")", SP}
WordPieces == {"jdoe", "cv", "c", "v", "2023"}

\* the stems of at most n tokens in which no two pieces of words stand side by side
Stems(n) ==
    {st \in UNION {[1..k -> NameToks] : k \in 0..n} :
        \A i \in 1..(Len(st) - 1) : ~(st[i] \in WordPieces /\ st[i + 1] \in WordPieces)}

FileNames ==
    {st \o ext : st \in Stems(MaxNameToks), ext \in {<<>>, <<".", "pdf">>}}
        \cup { <<"John", "_", "Doe", "_", "Resume", "_", "2023", ".", "pdf">>,
               <<"not", "_", "found", ".", "pdf">> }

ContactLineMenu ==
    { <<"joe", "@", "www", ".", "b", ".", "co">>, <<"jim", "@", "b", ".", "co", SP, "Chennai">>,
      <<"a", ".", "www", ".", "b", "@", "x", ".", "co", SP, "New", SP, "Delhi">>,
      <<"+", "91", SP, "9876543210">>,
      <<"+", "44", SP, "20", SP, "7946", SP, "0958">>,
      <<"Chennai", SP, "Bangalore", SP, "(", "987", ")", SP, "654", "-", "3210">> }

\* the library is asked without a region: it reads a number only where the text has a "+";
\* it may raise on any text
ContactInputs ==
    {[filename |-> <<"jdoe", ".", "pdf">>, text |-> t, phonenumbers |-> l] :
        t \in TextsOf(ContactLineMenu, MaxContactLines), l \in {NoNumber, LibraryFault}}
        \cup {[filename |-> <<"jdoe", ".", "pdf">>, text |-> t,
                phonenumbers |-> LibraryNumber(<<"+", "44", SP, "20", SP, "7946", SP, "0958">>)] :
                 t \in {x \in TextsOf(ContactLineMenu, MaxContactLines) :
                           \E i \in 1..Len(x) : x[i] = "+"}}

ContactInit == HandlerOff /\ ret = None /\ called = "none" /\ arg \in ContactInputs
ExtractContactCall ==
    Apply("extract_contact_details",
          extract_contact_details(arg.text, arg.filename, arg.phonenumbers))
SpecContact == ContactInit /\ [][ExtractContactCall]_vars

\* ---- the Location of extract_contact_details
LocationLineMenu ==
    { <<"Aurangabad">>, <<"vasco", SP, "da", SP, "gama">>, <<"New", SP, "Delhi">>,
      <<"foo", SP, "Bangalore">>, <<"Chennai">>, <<"foo">> }

LocationInit ==
    /\ HandlerOff /\ ret = None /\ called = "none"
    /\ arg \in [filename : {<<"jdoe", ".", "pdf">>},
                 text : TextsOf(LocationLineMenu, MaxContactLines),
                 phonenumbers : {NoNumber}]
ExtractLocationCall ==
    Apply("extract_contact_details",
          extract_contact_details(arg.text, arg.filename, arg.phonenumbers))
SpecLocation == LocationInit /\ [][ExtractLocationCall]_vars

\* ---- extract_contact_details: the name
NameInputs ==
    [filename : FileNames, text : {<<>>, <<"jdoe", SP, "cv", NL, "a@b.co">>},
     phonenumbers : {NoNumber}]

NameInit == HandlerOff /\ ret = None /\ called = "none" /\ arg \in NameInputs
ExtractNameCall ==
    Apply("extract_contact_details",
          extract_contact_details(arg.text, arg.filename, arg.phonenumbers))
SpecName == NameInit /\ [][ExtractNameCall]_vars

\* ---- upload_resume: two requests handled at the same time
Requests == {"r1", "r2"}

Doc1 == Pdf(<< <<"a@b.co">>,
               <<"EDUCATION", NL, "B", ".", "Tech", SP, "College", NL, "SKILLS", NL, "Python">> >>)
Doc2 == Pdf(<< <<"EDUCATION", NL, "SKILLS", NL, "Java">> >>)

\* the form posted with no file selected: one part with an empty filename
Unselected == [filename |-> <<>>, content |-> Broken]

Uploadables ==
    {[filename |-> <<"jdoe", ".", "pdf">>, content |-> c] : c \in {Doc1, Doc2, Broken}}
    \cup {[filename |-> <<"cv", ".", "PDF">>, content |-> Doc1],
          [filename |-> <<"jdoe", ".", "txt">>, content |-> Doc1]}

\* what a request can post: at most n files
Batches(n) == {<<>>, <<Unselected>>} \cup UNION {[1..k -> Uploadables] : k \in 1..n}

\* what the second request posts: nothing, a file of the same name as a file of the
\* first request, or a file of another name
OtherBatches ==
    {<<>>, <<[filename |-> <<"jdoe", ".", "pdf">>, content |-> Doc2]>>,
     <<[filename |-> <<"cv", ".", "PDF">>, content |-> Doc1]>>}

Init ==
    /\ request \in {q \in [Requests -> Batches(MaxBatch)] : q["r2"] \in OtherBatches}
    /\ uploads = {}
    /\ pc = [r \in Requests |-> "receive"]
    /\ idx = [r \in Requests |-> 1]
    /\ read_text = [r \in Requests |-> <<>>]
    /\ results = [r \in Requests |-> <<>>]
    /\ response = [r \in Requests |-> None]
    /\ ops = [r \in Requests |-> <<>>]
    /\ arg = None /\ ret = None /\ called = "none"

Next ==
    \E r \in Requests :
        \/ Receive(r) \/ Validate(r) \/ Save(r) \/ Read(r) \/ Analyze(r) \/ Remove(r)
        \/ Return(r)

Spec == Init /\ [][Next]_vars

\*+++ claims
(***************************************************************************)
(* C3: for every parsed profile the score is 10 for each of Name, Email    *)
(* and Phone that is not 'Not Found', plus 20 for a non-empty education    *)
(* list, 25 for a non-empty experience list and 25 for a non-empty skills  *)
(* list; so it lies in 0..100, does not depend on Location, max_score is   *)
(* 100 and percentage is the decimal score followed by '%'.                *)
(***************************************************************************)
RECURSIVE StrToInt(_)
StrToInt(cs) ==
    IF cs = <<>> THEN 0
    ELSE 10 * StrToInt(Slice(cs, 1, Len(cs) - 1))
         + (CHOOSE d \in 0..9 : Digit(d) = cs[Len(cs)])

Ind(b) == IF b THEN 1 ELSE 0

C3_ScoreIsWeightedSum ==
    called = "generate_ats_score" =>
        LET cd == arg.contact_details
            expected == 10 * Ind(cd.Name # NotFound) + 10 * Ind(cd.Email # NotFound)
                      + 10 * Ind(cd.Phone # NotFound) + 20 * Ind(arg.education # <<>>)
                      + 25 * Ind(arg.experience # <<>>) + 25 * Ind(arg.skills # <<>>)
            pct == ret.percentage
        IN  /\ ret.score = expected
            /\ ret.score \in 0..100
            /\ ret.max_score = 100
            /\ Len(pct) >= 2 /\ pct[Len(pct)] = "%"
            /\ \A i \in 1..(Len(pct) - 1) : \E d \in 0..9 : pct[i] = Digit(d)
            /\ (Len(pct) > 2 => pct[1] # "0")
            /\ StrToInt(Slice(pct, 1, Len(pct) - 1)) = ret.score
            /\ \A loc \in FieldValues :
                  generate_ats_score([arg EXCEPT !.contact_details.Location = loc]).score
                      = ret.score

C3_Witness ==
    /\ called = "generate_ats_score"
    /\ ret.score = 100
    /\ arg.contact_details.Location = NotFound

(***************************************************************************)
(* C4: scoring is monotonic: making one absent field (Name, Email, Phone,  *)
(* education, experience, skills) of a profile present, all else equal,    *)
(* never lowers the score.                                                 *)
(***************************************************************************)
C4_ScoreMonotonic ==
    called = "generate_ats_score" =>
        /\ \A f \in {"Name", "Email", "Phone"} :
              arg.contact_details[f] = NotFound =>
                  generate_ats_score([arg EXCEPT !.contact_details[f] = <<"x">>]).score
                      >= ret.score
        /\ \A f \in {"education", "experience", "skills"} :
              arg[f] = <<>> =>
                  \A v \in EntryLists \ {<<>>} :
                      generate_ats_score([arg EXCEPT ![f] = v]).score >= ret.score

C4_Witness ==
    /\ called = "generate_ats_score"
    /\ arg.education = <<>> /\ arg.contact_details.Name = NotFound
    /\ ret.score = 45
    /\ generate_ats_score([arg EXCEPT !.education = <<<<"x">>>>]).score = 65

(***************************************************************************)
(* C10: the section locator never ends the section on a recurrence of a    *)
(* searched header phrase: a line after the start line that contains a     *)
(* phrase of section_headers, and no next-section phrase outside           *)
(* section_headers, is not the end boundary, and it belongs to the body    *)
(* when it comes before the end boundary.                                  *)
(***************************************************************************)
C10_Recurrence(i) ==
    LET lines == Lines(arg.text)
        hs == arg.section_headers
        inSearched(ph) == \E j \in 1..Len(hs) : LowerEq(hs[j], ph)
    IN  /\ i > ret.start_idx /\ i <= Len(lines) - 1
        /\ \E j \in 1..Len(hs) : ContainsPhrase(lines[i + 1], hs[j])
        /\ \A j \in 1..Len(next_section_headers) :
              inSearched(next_section_headers[j])
                  \/ ~ContainsPhrase(lines[i + 1], next_section_headers[j])

C10_NoEndOnOwnHeader ==
    (called = "extract_section" /\ ret.start_idx # -1) =>
        \A i \in 0..(Len(Lines(arg.text)) - 1) :
            C10_Recurrence(i) =>
                /\ ret.end_idx # i
                /\ i < ret.end_idx =>
                      Lines(ret.body)[i - ret.start_idx] = Lines(arg.text)[i + 1]

C10_Witness ==
    /\ called = "extract_section" /\ ret.start_idx # -1
    /\ ret.end_idx < Len(Lines(arg.text))
    /\ \E i \in 0..(Len(Lines(arg.text)) - 1) : C10_Recurrence(i) /\ i < ret.end_idx


(***************************************************************************)
(* C8: for every text in which no line is a recognizable experience header *)
(* (a line that, blanks trimmed and case folded, is one of the experience  *)
(* header phrases), has_work_experience_section is false and               *)
(* process_resume returns exactly the string 'No experience section found  *)
(* in the resume.', never a list nor the 'No work experience entries       *)
(* found' message.                                                         *)
(***************************************************************************)
UpperSeq(t) == [i \in 1..Len(t) |-> Upper(t[i])]

IsHeaderLine(line, headers) ==
    \E j \in 1..Len(headers) : UpperSeq(Strip(line)) = UpperSeq(headers[j])

C8_NoHeaderLine ==
    \A i \in 1..Len(Lines(arg)) : ~IsHeaderLine(Lines(arg)[i], experience_headers)

C8_NoHeaderNoSection ==
    (called = "process_resume" /\ C8_NoHeaderLine) =>
        /\ ~has_work_experience_section(arg)
        /\ ret = [type |-> "str", value |-> NoSectionMessage]

C8_Witness ==
    /\ called = "process_resume" /\ C8_NoHeaderLine
    /\ \E i \in 1..Len(Lines(arg)) : ContainsPhrase(Lines(arg)[i], <<"Work", SP, "Experience">>)
    /\ \E i \in 1..Len(Lines(arg)) : Lines(arg)[i] = <<"Acme", SP, "Manager">>
    /\ ret.value = NoSectionMessage

(***************************************************************************)
(* C9: when an experience header is found but the section body up to the   *)
(* next section header has none of the plausibility indicators (a year     *)
(* range, a 'Month YYYY' token, a job verb, a job-title noun), in          *)
(* particular when the next section header follows at once,                *)
(* extract_experience returns the empty list; and no header line is ever   *)
(* returned as an entry.                                                   *)
(***************************************************************************)
\* the lines after the experience header the extractor starts from, up to the first
\* line that is a next-section header
C9_BodyUpToNextHeader ==
    LET text == Strip(CollapseNewlines(arg))
        hm == FirstPatternMatch(experience_headers, text)
        after == Lines(Slice(text, hm.end, Len(text)))
        stops == {i \in 1..Len(after) : IsHeaderLine(after[i], experience_next_section_headers)}
        last == IF stops = {} THEN Len(after) ELSE Min(stops) - 1
    IN  JoinWith(Slice(after, 1, last), <<NL>>)

C9_EmptyWhenImplausible ==
    called = "extract_experience" =>
        /\ (has_work_experience_section(arg)
              /\ ~AnyFound(experience_indicators, C9_BodyUpToNextHeader)) => ret = <<>>
        /\ \A i \in 1..Len(ret) :
              ~IsHeaderLine(ret[i], experience_headers \o experience_next_section_headers)


(***************************************************************************)
(* C1.  If a file of the batch has a disallowed extension, the request     *)
(* ends with a 400 and no file of the batch has been saved, read or        *)
(* analyzed before the error is returned, wherever the invalid file stands *)
(* in the batch.                                                           *)
(***************************************************************************)
C1_NothingProcessedBefore400 ==
    \A r \in Requests :
        (response[r] # None /\ response[r].status = 400) => ops[r] = <<>>

(***************************************************************************)
(* C2.  A fault while processing a file gives a 500 whose body carries     *)
(* none of the results computed for earlier files, and no later file of    *)
(* the batch is processed; a 200 is given only when every file was         *)
(* processed, and its body holds one result per uploaded file, in upload   *)
(* order.                                                                  *)
(***************************************************************************)
\* the operations request r performed on its file of index i
OpsOn(r, i) == {ops[r][k].op : k \in {j \in 1..Len(ops[r]) : ops[r][j].idx = i}}

C2_FaultAbortsBatch ==
    \A r \in Requests :
        response[r] # None =>
            /\ response[r].status = 500 =>
                  /\ DOMAIN response[r].body = {"error"}
                  /\ idx[r] <= Len(request[r])
                  /\ \A i \in (idx[r] + 1)..Len(request[r]) : OpsOn(r, i) = {}
            /\ response[r].status = 200 =>
                  /\ \A i \in 1..Len(request[r]) :
                        OpsOn(r, i) = {"save", "read", "analyze", "remove"}
                  /\ Len(response[r].body) = Len(request[r])
                  /\ \A i \in 1..Len(request[r]) :
                        /\ response[r].body[i].filename = request[r][i].filename
                        /\ response[r].body[i] = results[r][i]

\* a fault on the second file of r1 after the first was analyzed, next to a 200 of r2
C2_Witness ==
    /\ response["r1"] # None /\ response["r1"].status = 500
    /\ idx["r1"] = 2 /\ Len(results["r1"]) = 1
    /\ response["r2"] # None /\ response["r2"].status = 200 /\ Len(response["r2"].body) = 1

(***************************************************************************)
(* C5.  The education extractor returns the empty list whenever no entry   *)
(* is found, also when a header is found but the body up to the next       *)
(* section header has no non-blank line; it never returns a list whose     *)
(* only element is the empty string.                                       *)
(***************************************************************************)
C5_NeverOnlyEmptyString ==
    called = "extract_education" =>
        /\ ret # << <<>> >>
        /\ \A i \in 1..Len(ret) : ret[i] # <<>>

(***************************************************************************)
(* C6.  Requests handled at the same time do not interfere: each request   *)
(* is answered as if it were handled alone, also when both requests upload *)
(* a file of the same name.                                                *)
(***************************************************************************)
\* the answer to a batch handled alone, from the file of index i on
RECURSIVE C6_AloneFrom(_, _, _)
C6_AloneFrom(files, i, rs) ==
    IF i > Len(files) THEN Success(rs)
    ELSE IF ~allowed_file(files[i].filename) THEN InvalidFileType(files[i].filename)
    ELSE IF ~files[i].content.pdf
         THEN ProcessingError(files[i].filename, "cannot open broken document")
    ELSE C6_AloneFrom(files, i + 1,
            Append(rs, ResultOf(files[i].filename,
                                ParsedData(extract_text_from_pdf(files[i].content),
                                           files[i].filename))))

C6_Alone(files) ==
    IF files = <<>> THEN NoFileUploaded
    ELSE IF files[1].filename = <<>> THEN NoSelectedFile
    ELSE C6_AloneFrom(files, 1, <<>>)

\* the answer reports the exception of an extractor
FieldFault(answer) ==
    /\ answer.status = 500
    /\ answer.body.error[Len(answer.body.error)] \in Extractors

\* the same status and the same body (a list of results, or an error)
C6_SameAnswer(a, b) == a.status = b.status /\ a.body = b.body

C6_NoInterference ==
    \A r \in Requests :
        (response[r] # None /\ ~FieldFault(response[r]))
            => C6_SameAnswer(response[r], C6_Alone(request[r]))

C11_Fold(t) == [i \in 1..Len(t) |-> Upper(t[i])]

\* the phrase occurs in the line, case folded, between two word boundaries
C11_HasPhrase(line, ph) ==
    \E p \in 1..(Len(line) - Len(ph) + 1) :
        /\ \A k \in 1..Len(ph) : Upper(line[p + k - 1]) = Upper(ph[k])
        /\ (p = 1 \/ ~IsWordTok(line[p - 1]))
        /\ (p + Len(ph) > Len(line) \/ ~IsWordTok(line[p + Len(ph)]))

C11_HasAny(line, phs) == \E ph \in phs : C11_HasPhrase(line, ph)

\* the next-section phrases that are not, case folded, a searched header
C11_Remaining(hs) ==
    {next_section_headers[j] : j \in 1..Len(next_section_headers)}
        \ {ph \in {next_section_headers[j] : j \in 1..Len(next_section_headers)} :
              \E i \in 1..Len(hs) : C11_Fold(hs[i]) = C11_Fold(ph)}

C11_BodyBetweenStartAndEnd ==
    called = "extract_section" =>
        LET lines == Lines(arg.text)
            n == Len(lines)
            hs == {arg.section_headers[j] : j \in 1..Len(arg.section_headers)}
            starts == {i \in 1..n : C11_HasAny(lines[i], hs)}
            start == Min(starts)
            ends == {i \in (start + 1)..n : C11_HasAny(lines[i], C11_Remaining(arg.section_headers))}
            end == IF ends = {} THEN n + 1 ELSE Min(ends)
        IN  IF starts = {} THEN ret.body = <<>>
            ELSE /\ ret.start_idx = start - 1
                 /\ ret.end_idx = end - 1
                 /\ ret.body = JoinWith([k \in 1..(end - start - 1) |-> lines[start + k]], <<NL>>)

\* a header line after the first line, a body of one non-empty line, then an end line
C11_Witness ==
    /\ called = "extract_section"
    /\ ret.start_idx > 0
    /\ ret.end_idx = ret.start_idx + 2
    /\ ret.end_idx < Len(Lines(arg.text))
    /\ ret.body # <<>>

(***************************************************************************)
(* C12: skills extraction is section-first.  When a skills section is      *)
(* located and a taxonomy keyword matches inside its body, the result is   *)
(* exactly the set of the keywords matching inside that body; when no      *)
(* section is located or no keyword matches inside it, the result is       *)
(* exactly the set of the keywords matching anywhere in the document.      *)
(***************************************************************************)
C12_SkillHeaders == {<<"Skills">>, <<"Technical", SP, "Skills">>, <<"Competencies">>, <<"Expertise">>}

\* the keyword occurs in t, case folded, with a \b on both sides
C12_Occurs(t, kw) ==
    \E p \in 1..(Len(t) - Len(kw) + 1) :
        /\ \A k \in 1..Len(kw) : Upper(t[p + k - 1]) = Upper(kw[k])
        /\ WordBoundary(t, p) /\ WordBoundary(t, p + Len(kw))

C12_Taxonomy == {all_keywords[k] : k \in 1..Len(all_keywords)}

C12_KeywordsOf(t) == {kw \in C12_Taxonomy : C12_Occurs(t, kw)}

\* the lines after the first skills header line up to the next section line
C12_SectionBody(t) ==
    LET lines == Lines(t)
        n == Len(lines)
        starts == {i \in 1..n : C11_HasAny(lines[i], C12_SkillHeaders)}
        start == Min(starts)
        ends == {i \in (start + 1)..n :
                    C11_HasAny(lines[i], C11_Remaining(<< <<"Skills">>, <<"Technical", SP, "Skills">>,
                                                         <<"Competencies">>, <<"Expertise">> >>))}
        end == IF ends = {} THEN n + 1 ELSE Min(ends)
    IN  IF starts = {} THEN <<>>
        ELSE JoinWith([k \in 1..(end - start - 1) |-> lines[start + k]], <<NL>>)

C12_Returned == {ret[i] : i \in 1..Len(ret)}

C12_SectionFirst ==
    called = "extract_skills" =>
        IF C12_KeywordsOf(C12_SectionBody(arg)) # {}
        THEN C12_Returned = C12_KeywordsOf(C12_SectionBody(arg))
        ELSE C12_Returned = C12_KeywordsOf(arg)

\* a keyword matches in the section and another one only outside of it
C12_Witness ==
    /\ called = "extract_skills"
    /\ C12_KeywordsOf(C12_SectionBody(arg)) # {}
    /\ C12_KeywordsOf(arg) \ C12_KeywordsOf(C12_SectionBody(arg)) # {}
    /\ C12_Returned = C12_KeywordsOf(C12_SectionBody(arg))

\* a section is located, no keyword matches inside it, the document has one
C12_FallbackWitness ==
    /\ called = "extract_skills"
    /\ C12_SectionBody(arg) # <<>>
    /\ C12_KeywordsOf(C12_SectionBody(arg)) = {}
    /\ ret # <<>>

(***************************************************************************)
(* C13: for every text, the list returned by extract_skills contains only  *)
(* lowercase keywords of the fixed taxonomy and contains no keyword twice. *)
(***************************************************************************)
\* str.lower() of the tokens of the model that have upper-case letters
C13_LowerMap ==
    "Skills" :> "skills" @@ "Technical" :> "technical" @@ "Java" :> "java" @@
    "Education" :> "education" @@ "Python" :> "python" @@ "React" :> "react" @@
    "MySQL" :> "mysql" @@ "C" :> "c"

C13_Lower(t) == [i \in 1..Len(t) |-> IF t[i] \in DOMAIN C13_LowerMap THEN C13_LowerMap[t[i]] ELSE t[i]]

C13_TaxonomyOnlyNoRepeats ==
    called = "extract_skills" =>
        /\ \A i \in 1..Len(ret) : ret[i] \in C12_Taxonomy /\ C13_Lower(ret[i]) = ret[i]
        /\ \A i, j \in 1..Len(ret) : ret[i] = ret[j] => i = j

\* a keyword that the taxonomy lists twice, spelled with capitals in the text
C13_Witness ==
    /\ called = "extract_skills"
    /\ <<"react">> \in C12_Returned
    /\ \E p \in 1..Len(arg) : arg[p] = "React"
    /\ Cardinality({k \in 1..Len(all_keywords) : all_keywords[k] = <<"react">>}) = 2

(***************************************************************************)
(* C14: name extraction is idempotent for every file name: when a file     *)
(* name yields Name = n, and n is not 'Not Found', the name extraction run *)
(* again with n as the file name yields n again.                           *)
(***************************************************************************)
C14_NameIdempotent ==
    (called = "extract_contact_details" /\ ret.Name # NotFound) =>
        extract_contact_details(arg.text, ret.Name, arg.phonenumbers).Name = ret.Name

(***************************************************************************)
(* C15: the Name is computed from the file name alone.  For every body     *)
(* text it is the file name with the extension stripped, '_' and '-'       *)
(* turned into spaces, the stop-words and the standalone digit tokens      *)
(* removed, the characters '(' and ')' stripped after that, whitespace     *)
(* collapsed and title-cased ('John_Doe_Resume_2023.pdf' gives 'John       *)
(* Doe'); it is 'Not Found' when nothing remains after the cleaning.       *)
(***************************************************************************)
RECURSIVE C15_Chunks(_)
\* the maximal pieces of t between blanks, the empty ones left out
C15_Chunks(t) ==
    LET sps == {i \in 1..Len(t) : t[i] = SP}
        cut == IF sps = {} THEN Len(t) + 1 ELSE Min(sps)
        head == Slice(t, 1, cut - 1)
    IN  IF t = <<>> THEN <<>>
        ELSE (IF head = <<>> THEN <<>> ELSE <<head>>) \o C15_Chunks(Slice(t, cut + 1, Len(t)))

C15_StopWords ==
    {"RESUME", "UPDATED", "UPDATE", "PROFILE", "CV", "LATEST", "FINAL", "NEW", "PDF", "UPLOADED"}
C15_IsDigits(x) == x \in {"2023", "2019", "2021", "8", "9876543210"}

\* the cleaning of the claim; the symbols '(' and ')' go too when strip_symbols
C15_Cleaned(filename, strip_symbols) ==
    LET base == SplitextBase(filename)
        spaced == [i \in 1..Len(base) |-> IF base[i] \in {"_", "-"} THEN SP ELSE base[i]]
        kept == SelectSeq(spaced, LAMBDA x : /\ Upper(x) \notin C15_StopWords
                                             /\ ~C15_IsDigits(x)
                                             /\ ~(strip_symbols /\ x \in {"(", ")"}))
        words == C15_Chunks(kept)
    IN  JoinWith([i \in 1..Len(words) |-> Title(words[i])], <<SP>>)

C15_NameFromFilenameAlone ==
    called = "extract_contact_details" =>
        ret.Name = IF C15_Cleaned(arg.filename, TRUE) = <<>> THEN NotFound
                   ELSE C15_Cleaned(arg.filename, TRUE)

\* the claim as it was stated: no symbol is stripped, and 'Not Found' stands for
\* nothing else than an empty cleaning
C15_NameAsStated ==
    called = "extract_contact_details" =>
        /\ ret.Name = IF C15_Cleaned(arg.filename, FALSE) = <<>> THEN NotFound
                      ELSE C15_Cleaned(arg.filename, FALSE)
        /\ ret.Name = NotFound <=> C15_Cleaned(arg.filename, FALSE) = <<>>

\* the scenario of the claim, with a body text that holds other words
C15_Witness ==
    /\ called = "extract_contact_details"
    /\ arg.filename = <<"John", "_", "Doe", "_", "Resume", "_", "2023", ".", "pdf">>
    /\ arg.text # <<>>
    /\ ret.Name = <<"John", SP, "Doe">>

\* a file name with a bracket, a digit token and a stop-word
C15_SymbolWitness ==
    /\ called = "extract_contact_details"
    /\ arg.filename = <<"jdoe", "(", "2023", ".", "pdf">>
    /\ ret.Name = <<"Jdoe">>

(***************************************************************************)
(* C16: for every text, Email is 'Not Found' when the text contains no     *)
(* email-shaped substring, and otherwise it is the leftmost email-shaped   *)
(* substring of the original text: the 'www.' spacing step neither hides   *)
(* an address of the text nor changes which one is first.                  *)
(***************************************************************************)
C16_LeftmostEmailOfOriginal ==
    called = "extract_contact_details" =>
        LET m == Search(email_pattern(arg.text), arg.text)
        IN  IF m = NoMatch THEN ret.Email = NotFound
            ELSE ret.Email = Slice(arg.text, m.start, m.end - 1)

(***************************************************************************)
(* C17: the phone is the first occurrence of the first of the three        *)
(* patterns, in their order, that matches; the phone-number library is     *)
(* asked only when none of the three matches; when the library finds       *)
(* nothing or raises, Phone stays 'Not Found', the fault does not come out *)
(* of the function, and the Location is extracted all the same.            *)
(***************************************************************************)
C17_PatternsThenLibrary ==
    called = "extract_contact_details" =>
        LET chars == PhoneChars(WwwSpaced(arg.text))
            matching == {k \in 1..Len(phone_patterns) : Found(phone_patterns[k], chars)}
            first == Search(phone_patterns[Min(matching)], chars)
        IN  /\ DOMAIN ret = {"Name", "Email", "Phone", "Location"}
            /\ matching # {} => ret.Phone = PhoneText(WwwSpaced(arg.text), first)
            /\ (matching = {} /\ arg.phonenumbers.kind \in {"none", "fault"}) =>
                  ret.Phone = NotFound
            /\ (matching = {} /\ arg.phonenumbers.kind = "number") =>
                  ret.Phone = arg.phonenumbers.international
            /\ ret.Location = LocationOf(NonBlankLines(arg.text))

\* the library raises on a text that no pattern matches and that names a city
C17_Witness ==
    /\ called = "extract_contact_details"
    /\ arg.phonenumbers = LibraryFault
    /\ \A k \in 1..Len(phone_patterns) : ~Found(phone_patterns[k], PhoneChars(WwwSpaced(arg.text)))
    /\ \E i \in 1..Len(arg.text) : arg.text[i] = "+"
    /\ ret.Phone = NotFound
    /\ ret.Location # NotFound

\* a pattern matches while the library would give another number
C17_PatternWitness ==
    /\ called = "extract_contact_details"
    /\ arg.phonenumbers.kind = "number"
    /\ ret.Phone = <<"(", "987", ")", SP, "654", "-", "3210">>
    /\ \E i \in 1..Len(arg.text) : arg.text[i] = "91"

(***************************************************************************)
(* C18: the Location is decided by the first line, in document order, that *)
(* contains a gazetteer city as a whole word: the city is the one earliest *)
(* in the gazetteer's iteration order among those on that line, later      *)
(* lines are not consulted, the output is 'City, Region' (a line with      *)
(* 'Bangalore' gives 'Bangalore, Karnataka'), and it is 'Not Found'        *)
(* exactly when no line contains a gazetteer city.                         *)
(***************************************************************************)
C18_CitiesOn(line) == {c \in 1..Len(city_to_state) : C11_HasPhrase(line, city_to_state[c].city)}

C18_FirstLineFirstCity ==
    called = "extract_contact_details" =>
        LET lines == Lines(arg.text)
            with == {i \in 1..Len(lines) : C18_CitiesOn(lines[i]) # {}}
            row == city_to_state[Min(C18_CitiesOn(lines[Min(with)]))]
        IN  /\ ret.Location = NotFound <=> with = {}
            /\ with # {} => ret.Location = Title(row.city) \o <<",", SP>> \o row.state

\* 'Chennai' stands before 'Bangalore' on the first line with a city, another city
\* stands on a later line
C18_Witness ==
    /\ called = "extract_contact_details"
    /\ ret.Location = <<"Bangalore", ",", SP, "Karnataka">>
    /\ LET lines == Lines(arg.text)
           with == {i \in 1..Len(lines) : C18_CitiesOn(lines[i]) # {}}
       IN  /\ Min(with) > 1
           /\ \E i \in with : i > Min(with) /\ 1 \notin C18_CitiesOn(lines[i])

(***************************************************************************)
(* C19: the experience section body ends at the earliest-positioned        *)
(* next-section header line that follows the experience header, whichever  *)
(* header of the next-section list it is: when SKILLS stands before        *)
(* EDUCATION after the experience header, the body stops at SKILLS and     *)
(* holds no SKILLS content.                                                *)
(***************************************************************************)
\* the line, blanks trimmed and case folded, is one of the headers
C19_IsHeader(line, headers) ==
    \E j \in 1..Len(headers) : C11_Fold(Strip(line)) = C11_Fold(headers[j])

\* the lines after the header line the section starts from, up to the first line in
\* document order that is a next-section header
C19_Body ==
    LET text == Strip(CollapseNewlines(arg))
        hm == FirstPatternMatch(experience_headers, text)
        after == Lines(Slice(text, hm.end, Len(text)))
        stops == {i \in 1..Len(after) : C19_IsHeader(after[i], experience_next_section_headers)}
        last == IF stops = {} THEN Len(after) ELSE Min(stops) - 1
    IN  Strip(JoinWith([i \in 1..last |-> after[i]], <<NL>>))

C19_EndsAtEarliestHeader ==
    (called = "extract_experience_section" /\ ret # <<>>) =>
        /\ ret = C19_Body
        /\ \A i \in 1..Len(Lines(ret)) :
              ~C19_IsHeader(Lines(ret)[i], experience_next_section_headers)

(***************************************************************************)
(* C20: every taxonomy keyword that occurs in the scanned text as a        *)
(* standalone token (delimited by whitespace, a comma or the start or end  *)
(* of the text) is returned by extract_skills, the keywords that begin or  *)
(* end with a non-alphanumeric character ('c++', 'c#', '.net') included;   *)
(* and a keyword is not returned when it occurs only inside a longer word  *)
(* ('sql' inside 'mysql').                                                 *)
(***************************************************************************)
\* the keyword occurs in t, case folded, with a token of `around` or an end of the text
\* on each side
C20_OccursBetween(t, kw, around) ==
    \E p \in 1..(Len(t) - Len(kw) + 1) :
        /\ \A k \in 1..Len(kw) : Upper(t[p + k - 1]) = Upper(kw[k])
        /\ (p = 1 \/ t[p - 1] \in around)
        /\ (p + Len(kw) > Len(t) \/ t[p + Len(kw)] \in around)

\* the text the keywords are looked for in: the section body when it yields any
C20_Scanned ==
    IF C12_KeywordsOf(C12_SectionBody(arg)) # {} THEN C12_SectionBody(arg) ELSE arg

C20_StandaloneKeywordsReturned ==
    called = "extract_skills" =>
        \A kw \in C12_Taxonomy :
            /\ C20_OccursBetween(C20_Scanned, kw, {SP, NL, ","}) => kw \in C12_Returned
            /\ kw \in C12_Returned => C20_OccursBetween(C20_Scanned, kw, WhiteTok \cup PunctTok)

(***************************************************************************)
(* C21: the segmentation of the education section is a strict waterfall.   *)
(* The strategies (date-range format, entry markers, degree / institution  *)
(* / percentage triples, keyword lines, keyword paragraphs, whole section) *)
(* are tried in that order; the segmented list is the output of the first  *)
(* strategy that yields an entry, and of that strategy only.               *)
(***************************************************************************)
\* what each strategy yields for the section when it is run on its own
C21_Outputs(section) ==
    << SpecialFormatEntries(section),
       MarkerEntries(Lines(section), 1, <<>>, -1),
       TripleStrategy(section),
       KeywordLines(section),
       KeywordParagraphs(section),
       <<Strip(ReplaceNewlines(section))>> >>

C21_First(section) == Min({k \in 1..6 : C21_Outputs(section)[k] # <<>>})

C21_StrictWaterfall ==
    (called = "education_entries" /\ ret # None) =>
        ret.education_entries = C21_Outputs(ret.education_section)[C21_First(ret.education_section)]

\* the date-range format and the markers both yield entries: the former wins
C21_Witness ==
    /\ called = "education_entries" /\ ret # None
    /\ C21_First(ret.education_section) = 1
    /\ C21_Outputs(ret.education_section)[2] # <<>>
    /\ ret.education_entries # C21_Outputs(ret.education_section)[2]

\* the date-range format yields nothing and the markers segment the section
C21_MarkerWitness ==
    /\ called = "education_entries" /\ ret # None
    /\ C21_First(ret.education_section) = 2
    /\ Len(ret.education_entries) > 1

(***************************************************************************)
(* C22: validation of the education entries.  When at least one segmented  *)
(* entry passes validation (education keyword, institution word, year      *)
(* range or score keyword), extract_education returns exactly the passing  *)
(* entries, in their order, and no failing entry; when none passes and a   *)
(* reconstruction pass yields entries, what is returned is the output of   *)
(* a reconstruction pass, so the unvalidated list is returned only when    *)
(* validation and every reconstruction pass yield nothing.                 *)
(***************************************************************************)
\* the segmented entries that pass validation, in their order
C22_Passing(entries) == SelectSeq(entries, ValidEducationEntry)

\* the outputs of the reconstruction passes that yield an entry
C22_Reconstructed(text, section) ==
    { ConstructedEntries(SelectSeq(Lines(section), LAMBDA l : Strip(l) # <<>>), 1, <<>>),
      MouneshEntries(section),
      AcademicRecordEntries(text),
      BEElectricalEntries(text) } \ {<<>>}

C22_PassingEntriesReturned ==
    (called = "extract_education" /\ Segmented(arg) # None) =>
        LET seg == Segmented(arg)
            passing == C22_Passing(seg.education_entries)
            rebuilt == C22_Reconstructed(arg, seg.education_section)
        IN  /\ passing # <<>> => ret = passing
            /\ (passing = <<>> /\ rebuilt # {}) => ret \in rebuilt
            /\ (passing = <<>> /\ rebuilt = {}) => ret \in {seg.education_entries, <<>>}

\* one entry passes, another fails, and only the former is returned
C22_Witness ==
    /\ called = "extract_education" /\ Segmented(arg) # None
    /\ C22_Passing(Segmented(arg).education_entries) # <<>>
    /\ C22_Passing(Segmented(arg).education_entries) # Segmented(arg).education_entries
    /\ ret = C22_Passing(Segmented(arg).education_entries)

\* nothing passes and nothing is rebuilt: the unvalidated list is returned
C22_FallbackWitness ==
    /\ called = "extract_education" /\ Segmented(arg) # None
    /\ C22_Passing(Segmented(arg).education_entries) = <<>>
    /\ C22_Reconstructed(arg, Segmented(arg).education_section) = {}
    /\ ret = Segmented(arg).education_entries /\ ret # <<>> /\ ret[1] # <<>>

\* nothing passes and the keyword reconstruction yields the returned entries
C22_RebuiltWitness ==
    /\ called = "extract_education" /\ Segmented(arg) # None
    /\ C22_Passing(Segmented(arg).education_entries) = <<>>
    /\ C22_Reconstructed(arg, Segmented(arg).education_section) # {}
    /\ ret \in C22_Reconstructed(arg, Segmented(arg).education_section)
    /\ ret # Segmented(arg).education_entries

(***************************************************************************)
(* C23: date-anchored segmentation of the experience section.  When the    *)
(* split at blank lines yields at most one entry and the date-anchored     *)
(* segmentation is applied, its entries partition the lines of the section *)
(* in document order; every entry after the first begins with a line that  *)
(* matches the date-range pattern and whose preceding line does not; and   *)
(* no such anchor line stands anywhere but at the start of an entry.       *)
(***************************************************************************)
\* line i has a date range and the line before it has none
C23_IsAnchor(lines, i) ==
    /\ Found(date_pattern, lines[i])
    /\ i = 1 \/ ~Found(date_pattern, lines[i - 1])

\* the date-anchored segmentation is the one in force: one entry or none at the blank
\* lines, and an anchor after the first line
C23_Applied(section) ==
    /\ Len(RegexSplit(<<Lit(NL), Ws, Lit(NL)>>, section)) <= 1
    /\ \E i \in 2..Len(Lines(section)) : C23_IsAnchor(Lines(section), i)

\* the lines of the entries, one entry after the other
RECURSIVE C23_AllLines(_)
C23_AllLines(entries) ==
    IF entries = <<>> THEN <<>> ELSE Lines(entries[1]) \o C23_AllLines(Tail(entries))

\* the index, among the lines of the section, of the first line of entry k
C23_StartOf(entries, k) == Len(C23_AllLines(SubSeq(entries, 1, k - 1))) + 1

C23_DateAnchoredPartition ==
    (called = "parse_experience_entries" /\ ret # None /\ C23_Applied(ret.experience_section)) =>
        LET lines == Lines(ret.experience_section)
            starts == {C23_StartOf(ret.entries, k) : k \in 1..Len(ret.entries)}
        IN  /\ C23_AllLines(ret.entries) = lines
            /\ \A k \in 2..Len(ret.entries) : C23_IsAnchor(lines, C23_StartOf(ret.entries, k))
            /\ \A i \in 1..Len(lines) : C23_IsAnchor(lines, i) => i \in starts

\* a section with two date lines in a row after another line: one anchor, two entries
C23_Witness ==
    /\ called = "parse_experience_entries" /\ ret # None /\ C23_Applied(ret.experience_section)
    /\ Len(ret.entries) = 2
    /\ \E i \in 2..Len(Lines(ret.experience_section)) :
          /\ Found(date_pattern, Lines(ret.experience_section)[i])
          /\ Found(date_pattern, Lines(ret.experience_section)[i - 1])

(***************************************************************************)
(* C24: every entry returned by parse_experience_entries, whichever        *)
(* segmentation produced it, contains a date range, a job title or a job   *)
(* verb and matches no contact pattern (e-mail, phone, 10-digit run,       *)
(* linkedin.com); the entries are returned in document order and an entry  *)
(* that satisfies the condition is never dropped.                          *)
(***************************************************************************)
C24_IsExperience(entry) ==
    \/ Found(date_pattern, entry)
    \/ Found(job_title_pattern, entry)
    \/ Found(job_verbs, entry)

C24_IsContact(entry) ==
    \E i \in 1..Len(entry) : Upper(entry[i]) \in EmailTok \cup PhoneTok \cup LinkedInTok

C24_Keeps(entry) == C24_IsExperience(entry) /\ ~C24_IsContact(entry)

\* the entries the filter is given, stripped as the filter strips them
C24_Stripped(entries) == [i \in 1..Len(entries) |-> Strip(entries[i])]

C24_OnlyExperienceEntries ==
    (called = "parse_experience_entries" /\ ret # None) =>
        /\ \A i \in 1..Len(ret.valid_entries) : C24_Keeps(ret.valid_entries[i])
        /\ ret.valid_entries = SelectSeq(C24_Stripped(ret.entries), C24_Keeps)

\* an entry is returned and another, with a job title or a verb or a date but with an
\* e-mail address too, is dropped
C24_Witness ==
    /\ called = "parse_experience_entries" /\ ret # None
    /\ ret.valid_entries # <<>>
    /\ \E i \in 1..Len(ret.entries) :
          C24_IsExperience(ret.entries[i]) /\ C24_IsContact(ret.entries[i])

\* the returned entries come from the split at blank lines
C24_BlankSplitWitness ==
    /\ called = "parse_experience_entries" /\ ret # None
    /\ Len(ret.valid_entries) > 1
    /\ ret.entries = RegexSplit(<<Lit(NL), Ws, Lit(NL)>>, ret.experience_section)

\* the returned entries come from the segmentation by job titles and company names
C24_TitleWitness ==
    /\ called = "parse_experience_entries" /\ ret # None
    /\ Len(ret.valid_entries) > 1
    /\ ~C23_Applied(ret.experience_section)
    /\ Len(RegexSplit(<<Lit(NL), Ws, Lit(NL)>>, ret.experience_section)) <= 1

(***************************************************************************)
(* C25: parse_experience_details emits the non-empty components among      *)
(* company, role and duration, in that order, joined by " | ", with no     *)
(* empty component and no leading or trailing separator; for a header      *)
(* "Role | Company | ... | Date" the record is "Company | Role | Date";    *)
(* for a header without "|" the company is the header with the duration    *)
(* removed and the role is the second line; and the duration text appears  *)
(* at most once in the record.                                             *)
(***************************************************************************)
C25_Join(parts) == JoinWith(SelectSeq(parts, LAMBDA part : part # <<>>), <<SP, "|", SP>>)

\* the date range of the entry, "" when it has none
C25_DateRange(entry) == MatchedText(entry, Search(date_range_pattern, entry))

\* how many times x stands in d
C25_Count(d, x) ==
    Cardinality({q \in 1..(Len(d) - Len(x) + 1) : SubSeq(d, q, q + Len(x) - 1) = x})

\* no component of the record is empty and no separator leads or trails
C25_WellJoined(d) ==
    d # <<>> => /\ d[1] \notin {SP, "|"}
                /\ d[Len(d)] \notin {SP, "|"}
                /\ \A q \in 1..(Len(d) - 2) : ~(d[q] = "|" /\ d[q + 2] = "|")

C25_RecordOf(entry, d) ==
    LET header == Strip(Lines(entry)[1])
        tokens == PipeTokens(SplitOn(header, "|"))
        dated == Found(date_range_pattern, tokens[Len(tokens)])
        duration == IF Len(tokens) > 1 /\ dated THEN tokens[Len(tokens)] ELSE C25_DateRange(entry)
    IN  /\ C25_WellJoined(d)
        /\ (Len(tokens) >= 3 /\ dated) => d = C25_Join(<<tokens[2], tokens[1], tokens[Len(tokens)]>>)
        /\ Len(tokens) = 1 =>
              d = C25_Join(<< IF duration = <<>> THEN header
                              ELSE RStripSet(Strip(RemoveAll(header, duration)), {SP, NL, ",", "-"}),
                              IF Len(Lines(entry)) > 1 THEN Strip(Lines(entry)[2]) ELSE <<>>,
                              duration >>)
        /\ duration # <<>> => C25_Count(d, duration) <= 1

C25_CompanyRoleDuration ==
    (called = "parse_experience_details" /\ ret # None) =>
        \A i \in 1..Len(ret.entries) : C25_RecordOf(ret.entries[i], ret.details[i])

(***************************************************************************)
(* C26: after the upload handler has returned, with any status (200, 400   *)
(* or 500), no temporary file saved by that request remains in the uploads *)
(* folder: every file saved during the request has been removed.  (A path  *)
(* another request saved to as well is left out: the file found there may  *)
(* be the other request's.)                                                *)
(***************************************************************************)
\* request r saved a file under the name
C26_SavedBy(r, filename) ==
    \E i \in 1..Len(request[r]) : request[r][i].filename = filename /\ "save" \in OpsOn(r, i)

C26_NoTempFileLeft ==
    \A r \in Requests :
        response[r] # None =>
            \A u \in uploads :
                (\A o \in Requests \ {r} : ~C26_SavedBy(o, u.filename)) => ~C26_SavedBy(r, u.filename)

(***************************************************************************)
(* C27: for every education section that has a non-blank line and that the *)
(* date-range format does not segment, the segmentation by markers yields  *)
(* at least one entry, and its entries partition the non-blank lines of    *)
(* the section in document order; hence the triples, the keyword lines and *)
(* the keyword paragraphs are never what segments such a section, and the  *)
(* whole section is the last resort only of a section with no non-blank    *)
(* line.                                                                   *)
(***************************************************************************)
\* the non-blank lines grouped into entries: a new entry after each line whose index is
\* in cuts, the lines of an entry joined by a blank
RECURSIVE C27_Grouped(_, _, _, _)
C27_Grouped(lines, cuts, i, cur) ==
    IF i > Len(lines) THEN (IF cur = <<>> THEN <<>> ELSE <<JoinWith(cur, <<SP>>)>>)
    ELSE IF i \in cuts
         THEN <<JoinWith(Append(cur, lines[i]), <<SP>>)>> \o C27_Grouped(lines, cuts, i + 1, <<>>)
         ELSE C27_Grouped(lines, cuts, i + 1, Append(cur, lines[i]))

C27_IsPartition(entries, lines) ==
    \E cuts \in SUBSET (1..(Len(lines) - 1)) : entries = C27_Grouped(lines, cuts, 1, <<>>)

C27_MarkersAlwaysSegment ==
    (called = "education_entries" /\ ret # None) =>
        LET lines == NonBlankLines(ret.education_section)
        IN  /\ (lines # <<>> /\ SpecialFormatEntries(ret.education_section) = <<>>) =>
                  /\ ret.education_entries # <<>>
                  /\ C27_IsPartition(ret.education_entries, lines)
            /\ ret.education_entries = <<Strip(ReplaceNewlines(ret.education_section))>> =>
                  \/ lines = <<>>
                  \/ C27_IsPartition(ret.education_entries, lines)

\* three non-blank lines in two entries, one of them of two lines
C27_Witness ==
    /\ called = "education_entries" /\ ret # None
    /\ SpecialFormatEntries(ret.education_section) = <<>>
    /\ Len(ret.education_entries) = 2
    /\ Len(NonBlankLines(ret.education_section)) = 3

\* a section with no non-blank line: the whole section is the only entry
C27_BlankWitness ==
    /\ called = "education_entries" /\ ret # None
    /\ NonBlankLines(ret.education_section) = <<>>
    /\ ret.education_entries = << <<>> >>

(***************************************************************************)
(* C28: the flattened gazetteer maps each city name to exactly one region; *)
(* when a city name is listed under several regions (Aurangabad), the      *)
(* region listed last is the one reported; so the reported Location is     *)
(* always "City, Region" with City listed under Region in the gazetteer.   *)
(* City names are compared as the gazetteer compares them, without regard  *)
(* to letter case: the city is reported in title case ("Vasco Da Gama").   *)
(***************************************************************************)
\* the two names are the same name, letter case aside
C28_SameName(a, b) == Len(a) = Len(b) /\ \A i \in 1..Len(a) : Upper(a[i]) = Upper(b[i])

\* the city is listed under state s of the gazetteer
C28_ListedUnder(city, s) ==
    \E c \in 1..Len(indian_cities_states[s].cities) :
        C28_SameName(city, indian_cities_states[s].cities[c])

\* the location is "City, Region" for a city listed under state s
C28_IsCityOf(location, s) ==
    LET region == indian_cities_states[s].state
        n == Len(location) - Len(region) - 2
    IN  /\ n >= 1
        /\ SubSeq(location, n + 1, Len(location)) = <<",", SP>> \o region
        /\ C28_ListedUnder(SubSeq(location, 1, n), s)
        /\ \A s2 \in (s + 1)..Len(indian_cities_states) :
              ~C28_ListedUnder(SubSeq(location, 1, n), s2)

C28_LastRegionReported ==
    /\ \A i, j \in 1..Len(city_to_state) :
          C28_SameName(city_to_state[i].city, city_to_state[j].city) => i = j
    /\ (called = "extract_contact_details" /\ ret.Location # NotFound) =>
          \E s \in 1..Len(indian_cities_states) : C28_IsCityOf(ret.Location, s)

\* a city listed under two regions is reported with the one listed last
C28_Witness ==
    /\ called = "extract_contact_details"
    /\ ret.Location = <<"Aurangabad", ",", SP, "Bihar">>
    /\ C28_ListedUnder(<<"Aurangabad">>, 2)

\* a city whose gazetteer spelling is not its title case
C28_TitleWitness ==
    /\ called = "extract_contact_details"
    /\ ret.Location = <<"Vasco", SP, "Da", SP, "Gama", ",", SP, "Goa">>

=============================================================================
